---- MODULE Spec2Model ----
(***************************************************************************)
(* Model of the type-reference resolvers of the diagram generators:        *)
(*   src/bin/connections.rs, src/bin/not_state_diagram.rs  (direct match)  *)
(*   src/bin/class_diagram.rs                              (typed labels)  *)
(*   src/bin/state_diagram.rs                              (cardinality)   *)
(*                                                                         *)
(* A Rust string is a sequence of tokens.  A token is one punctuation or   *)
(* white-space character ("<", ">", ",", "&", ":", " ") or one whole       *)
(* identifier ("Vec", "Order", ...).  The generators only ever test        *)
(* strings for a wrapper name followed by '<', for single punctuation      *)
(* characters and for white space, so an identifier behaves as one unit.   *)
(* Positions are 1-based here and 0-based in the source; 0 stands for      *)
(* None.                                                                   *)
(*                                                                         *)
(* Where the source slices a string by byte offsets the string is taken    *)
(* apart into its chars: "Vec" and "Box" are three chars of one byte each, *)
(* "U+00E9" (e acute) is one char of two bytes, every other token counts   *)
(* as one char of one byte (the other identifiers occur in ASCII strings   *)
(* only, where char and byte offsets agree and fall on token boundaries).  *)
(* A slice that Rust refuses (an offset inside a char, or out of range)    *)
(* panics; the functions then return Panic.                                *)
(***************************************************************************)
EXTENDS Integers, Sequences, FiniteSets, TLC

VARIABLES
    \* --- harness applying the pure string functions to one input ---
    ty,             \* the type expression handed to the function
    call,           \* which function has been applied so far
    ret,            \* unwrap_type(ty)
    ret2,           \* unwrap_type(unwrap_type(ty))
    leaves,         \* extract_all_inner_types(ty)
    \* --- one run of a generator ---
    prog,           \* which generator is running
    struct_names,   \* names of the declared structs (the catalog)
    enum_names,     \* names of the declared enums (class_diagram only)
    relationships,  \* connections / not_state_diagram: Vec<(String, String, String)>
    class_rels,     \* class_diagram: HashSet<Relationship>
    er_rels,        \* state_diagram: Vec<StructRelationship>
    step,           \* the field or method handled last and what it emitted
    nsteps,         \* number of fields and methods handled so far
    diagram_rels,   \* diagram.rs: HashSet<String> of formatted edge lines
    inserts,        \* number of HashSet::insert calls made so far
    files,          \* the input files that exist when the generator starts
    pc,             \* where main is: "start", "derive" or "exit"
    output,         \* the lines written to the diagram file (<<>>: not written)
    exit_code,      \* the exit status of the process (-1 while it runs)
    \* --- one run of a multi-step runner script ---
    runner,         \* which script is running
    started,        \* the commands started so far, each with how it ended
    runner_exit,    \* the exit status of the script (-1 while it runs)
    \* --- one call of format_mermaid ---
    fmt_lines,      \* input.lines()
    fmt_i,          \* the loop index i (0-based)
    formatted,      \* MermaidFormatter.formatted, as the lines pushed so far
    indent_level,   \* MermaidFormatter.indent_level
    in_subgraph,    \* MermaidFormatter.in_subgraph
    class_assignments,  \* MermaidFormatter.class_assignments
    fmt_pc,         \* "loop" while the while loop runs, then "done"
    \* --- one invocation of the task runner ---
    tool,           \* which task runner: "dynamic" (dynamic.rs) or "main" (src/main.rs)
    entries,        \* the directory entries of the current directory and src/bin
    manifest,       \* the command names of src/bin/commands.toml
    argv,           \* std::env::args() without the program name
    spawned,        \* the commands handed to Command::status so far
    invoke_pc,      \* where main is
    invoke_exit,    \* the exit status of the task runner (-1 while it runs)
    \* --- one run of clean_mermaid ---
    content,        \* the lines of the input file
    clean_i,        \* the lines extract_clean_content has handled
    in_init_block,  \* extract_clean_content's in_init_block
    cleaned_lines,  \* extract_clean_content's cleaned_lines
    clean_output,   \* clean_mermaid_file's output, as lines
    clean_pc,       \* "filter" while the for loop runs, then "build", then "done"
    \* --- one run of split_mermaid_o1 ---
    input_lines,    \* the lines of the file split_mermaid_o1 is given
    all_lines,      \* the lines read, without those that start with "%%{init"
    filtered_lines, \* the lines that are neither init nor class lines
    class_lines,    \* the classDef and class lines
    split_i,        \* the filtered lines handled so far
    subgraphs,      \* the collected top-level subgraphs
    current_subgraph,   \* <<>> for None, <<sg>> for Some(sg)
    nesting_level,
    skipping_nbsp_subgraph,
    written,        \* the files written, in order: path and lines
    split_pc,       \* "read", "parse", "write", "done"
    \* --- the palette name store ---
    hex_to_name,    \* ColorMaps.hex_to_name
    name_to_hex,    \* ColorMaps.name_to_hex
    colors,         \* the colors of the input file that are still to be named
    color_and_name, \* the (hex, name) pairs main has collected
    palette_pc,     \* "names" while main's for loop runs, then "done"
    \* --- one run of visualize ---
    diagram_type,   \* DiagramType::Default or DiagramType::Class
    output_format,  \* "svg" or "png"
    paths,          \* the paths that exist in the file system
    mmdc,           \* the argument list mmdc is run with (<<>> before it is run)
    visualize_pc,   \* where convert_to_format is
    visualize_exit  \* the exit status of visualize (-1 while it runs)

typeVars == <<ty, call, ret, ret2, leaves>>
deriveVars == <<relationships, class_rels, er_rels, diagram_rels, step, nsteps,
                inserts>>
runVars == <<prog, struct_names, enum_names, deriveVars, files, pc, output,
             exit_code>>

runnerVars == <<runner, started, runner_exit>>
fmtVars == <<fmt_lines, fmt_i, formatted, indent_level, in_subgraph,
             class_assignments, fmt_pc>>
invokeVars == <<tool, entries, manifest, argv, spawned, invoke_pc, invoke_exit>>
cleanVars == <<content, clean_i, in_init_block, cleaned_lines, clean_output, clean_pc>>
splitVars == <<input_lines, all_lines, filtered_lines, class_lines, split_i, subgraphs,
               current_subgraph, nesting_level, skipping_nbsp_subgraph, written,
               split_pc>>
paletteVars == <<hex_to_name, name_to_hex, colors, color_and_name, palette_pc>>
visualizeVars == <<diagram_type, output_format, paths, mmdc, visualize_pc,
                   visualize_exit>>
mermaidVars == <<cleanVars, splitVars, paletteVars, visualizeVars>>
toolVars == <<runnerVars, fmtVars, invokeVars, mermaidVars>>

vars == <<typeVars, runVars, toolVars>>

\* no runner script is running
IdleRunner ==
    /\ runner = "none"
    /\ started = <<>>
    /\ runner_exit = -1

\* format_mermaid is not being called
IdleFmt ==
    /\ fmt_lines = <<>>
    /\ fmt_i = 0
    /\ formatted = <<>>
    /\ indent_level = 0
    /\ in_subgraph = FALSE
    /\ class_assignments = <<>>
    /\ fmt_pc = "off"

\* the task runner is not running
IdleInvoke ==
    /\ tool = "none"
    /\ entries = {}
    /\ manifest = {}
    /\ argv = <<>>
    /\ spawned = <<>>
    /\ invoke_pc = "off"
    /\ invoke_exit = -1

\* clean_mermaid is not running
IdleClean ==
    /\ content = <<>>
    /\ clean_i = 0
    /\ in_init_block = FALSE
    /\ cleaned_lines = <<>>
    /\ clean_output = <<>>
    /\ clean_pc = "off"

\* split_mermaid_o1 is not running
IdleSplit ==
    /\ input_lines = <<>>
    /\ all_lines = <<>>
    /\ filtered_lines = <<>>
    /\ class_lines = <<>>
    /\ split_i = 0
    /\ subgraphs = <<>>
    /\ current_subgraph = <<>>
    /\ nesting_level = 0
    /\ skipping_nbsp_subgraph = FALSE
    /\ written = <<>>
    /\ split_pc = "off"

\* palette is not running
IdlePalette ==
    /\ hex_to_name = <<>>
    /\ name_to_hex = <<>>
    /\ colors = <<>>
    /\ color_and_name = <<>>
    /\ palette_pc = "off"

\* visualize is not running
IdleVisualize ==
    /\ diagram_type = "none"
    /\ output_format = "none"
    /\ paths = {}
    /\ mmdc = <<>>
    /\ visualize_pc = "off"
    /\ visualize_exit = -1

IdleMermaid == IdleClean /\ IdleSplit /\ IdlePalette /\ IdleVisualize

IdleTools == IdleRunner /\ IdleFmt /\ IdleInvoke /\ IdleMermaid

----------------------------------------------------------------------------
(* Bounds *)

\* longest input string enumerated exhaustively over Alphabet
MaxLen == 4
\* number of fields and methods one generator run handles
MaxSteps == 2
\* largest collection of edges the emitter is run on
MaxEmit == 3
\* longest diagram, in lines, enumerated exhaustively over FmtVocabulary
MaxLines == 3

----------------------------------------------------------------------------
(* str primitives *)

Min(S) == CHOOSE x \in S : \A y \in S : x <= y
Max(S) == CHOOSE x \in S : \A y \in S : x >= y

is_whitespace(c) == c \in {" ", "\n"}

trim_start(s) ==
    LET keep == {i \in 1..Len(s) : ~is_whitespace(s[i])}
    IN  IF keep = {} THEN <<>> ELSE SubSeq(s, Min(keep), Len(s))

trim_end(s) ==
    LET keep == {i \in 1..Len(s) : ~is_whitespace(s[i])}
    IN  IF keep = {} THEN <<>> ELSE SubSeq(s, 1, Max(keep))

trim(s) == trim_end(trim_start(s))

starts_with(s, p) == Len(s) >= Len(p) /\ SubSeq(s, 1, Len(p)) = p

\* position of the first c in s, 0 when there is none
find(s, c) ==
    LET hits == {i \in 1..Len(s) : s[i] = c}
    IN  IF hits = {} THEN 0 ELSE Min(hits)

\* position of the last "::" in s, 0 when there is none
rfind_colons_first(s) ==
    LET hits == {i \in 1..(Len(s) - 1) : s[i] = ":" /\ s[i + 1] = ":"}
    IN  IF hits = {} THEN 0 ELSE Min(hits)

rfind_colons(s) ==
    LET hits == {i \in 1..(Len(s) - 1) : s[i] = ":" /\ s[i + 1] = ":"}
    IN  IF hits = {} THEN 0 ELSE Max(hits)

----------------------------------------------------------------------------
(* chars and bytes *)

\* what a function returns when it panics
Panic == <<"panic!">>

\* the chars that take more than one byte in UTF-8
NonAscii == {"U+00E9"}

\* char::len_utf8
len_utf8(c) == IF c \in NonAscii THEN 2 ELSE 1

\* the chars of one token
token_chars(tok) ==
    CASE tok = "Vec" -> <<"V", "e", "c">>
      [] tok = "Box" -> <<"B", "o", "x">>
      [] OTHER -> <<tok>>

\* str::chars
RECURSIVE chars(_)
chars(s) == IF s = <<>> THEN <<>> ELSE token_chars(Head(s)) \o chars(Tail(s))

\* the token string that a sequence of chars spells
RECURSIVE from_chars(_)
from_chars(cs) ==
    IF cs = <<>> THEN <<>>
    ELSE IF starts_with(cs, <<"V", "e", "c">>)
         THEN <<"Vec">> \o from_chars(SubSeq(cs, 4, Len(cs)))
    ELSE IF starts_with(cs, <<"B", "o", "x">>)
         THEN <<"Box">> \o from_chars(SubSeq(cs, 4, Len(cs)))
    ELSE <<Head(cs)>> \o from_chars(Tail(cs))

\* str::len: the length in bytes
RECURSIVE byte_len(_)
byte_len(cs) == IF cs = <<>> THEN 0 ELSE len_utf8(Head(cs)) + byte_len(Tail(cs))

\* the 0-based byte offset of the char at 1-based position k
byte_offset(cs, k) == byte_len(SubSeq(cs, 1, k - 1))

\* the 1-based position of the char that starts at byte offset b (Len + 1 for the
\* end of the string), 0 when b is no char boundary
char_at(cs, b) ==
    LET hits == {k \in 1..(Len(cs) + 1) : byte_offset(cs, k) = b}
    IN  IF hits = {} THEN 0 ELSE Min(hits)

\* &s[a..b] with byte offsets a and b
byte_slice(cs, a, b) ==
    LET from == char_at(cs, a)
        to == char_at(cs, b)
    IN  IF a > b \/ from = 0 \/ to = 0 THEN Panic
        ELSE SubSeq(cs, from, to - 1)

----------------------------------------------------------------------------
(* unwrap_type *)

wrappers == {"Option", "Result", "Box", "Arc", "Rc", "Mutex", "HashSet", "Vec", "HashMap"}

\* while ty.starts_with('&') { ty = ty[1..].trim_start(); }
RECURSIVE strip_refs(_)
strip_refs(s) ==
    IF s # <<>> /\ s[1] = "&" THEN strip_refs(trim_start(Tail(s))) ELSE s

\* The depth-counting scan from position i: the position of the first '>' met at
\* depth 0, or 0 when the string ends first.
RECURSIVE scan_close(_, _, _)
scan_close(s, i, depth) ==
    IF i > Len(s) THEN 0
    ELSE IF s[i] = "<" THEN scan_close(s, i + 1, depth + 1)
    ELSE IF s[i] = ">" THEN (IF depth = 0 THEN i ELSE scan_close(s, i + 1, depth - 1))
    ELSE scan_close(s, i + 1, depth)

matching_end_no_depth(s, start) ==
    LET hits == {i \in (start + 1)..Len(s) : s[i] = ">"}
    IN  IF hits = {} THEN start + 1 ELSE Min(hits)

\* `end` for the '<' at position start: the matching '>' or the fallback start + 1
matching_end(s, start) ==
    LET m == scan_close(s, start + 1, 0)
    IN  IF m = 0 THEN start + 1 ELSE m

generic_inside_padded(result) ==
    <<" ", " ", " ", " ", " ", " ", " ", " ", " ", " ">>

\* &result[start + 1..end] for the first '<' of result: start is a byte offset,
\* i counts the chars of result[start + 1..], end = start + 1 + i
generic_inside(result) ==
    LET cs == chars(result)
        lt == find(cs, "<")
        start == byte_offset(cs, lt)
        i == matching_end(cs, lt) - (lt + 1)
    IN  from_chars(byte_slice(cs, start + 1, start + 1 + i))

has_wrapper_prefix(s) == \E w \in wrappers : starts_with(s, <<w, "<">>)

\* if let Some(colpos) = result.rfind("::") { result = result[colpos + 2..] }
strip_path(s) ==
    LET colpos == rfind_colons(s)
    IN  IF colpos = 0 THEN s ELSE SubSeq(s, colpos + 2, Len(s))

RECURSIVE unwrap_type(_), outer_loop(_)

\* the 'outer loop: as long as result starts with a wrapper, result becomes
\* unwrap_type of the text between its brackets
outer_loop(result) ==
    IF has_wrapper_prefix(result)
    THEN LET inside == generic_inside(result)
         IN  IF inside = Panic THEN Panic ELSE outer_loop(unwrap_type(inside))
    ELSE result

unwrap_type(t) == trim(strip_path(outer_loop(strip_refs(trim(t)))))

----------------------------------------------------------------------------
(* extract_all_inner_types *)

final_segment_dropped(inside, last_pos, acc) == acc

\* "Final segment": inside[last_pos..] is pushed unless it is empty after trim
final_segment(inside, last_pos, acc) ==
    LET rest == byte_slice(inside, last_pos, byte_len(inside))
        segment == from_chars(trim(rest))
    IN  IF rest = Panic THEN <<Panic>>
        ELSE IF segment # <<>> THEN Append(acc, segment) ELSE acc

\* The comma loop over the chars of `inside` from the char at position i: the
\* segments pushed so far are acc, last_pos is the 0-based byte offset the code
\* keeps (the 0-based char index of the last comma, plus one).  Returns results.
RECURSIVE split_commas(_, _, _, _, _)
split_commas(inside, i, comma_depth, last_pos, acc) ==
    IF i > Len(inside) THEN final_segment(inside, last_pos, acc)
    ELSE IF inside[i] = "<"
         THEN split_commas(inside, i + 1, comma_depth + 1, last_pos, acc)
    ELSE IF inside[i] = ">"
         THEN split_commas(inside, i + 1, comma_depth - 1, last_pos, acc)
    ELSE IF inside[i] = "," /\ comma_depth = 0
         THEN LET piece == byte_slice(inside, last_pos, i - 1)
              IN  IF piece = Panic THEN <<Panic>>
                  ELSE split_commas(inside, i + 1, comma_depth, i,
                                    Append(acc, from_chars(trim(piece))))
    ELSE split_commas(inside, i + 1, comma_depth, last_pos, acc)

\* &ty[start + 1..end] for the first '<' of ty: start is a byte offset, the scan
\* runs over chars[start + 1..] of the Vec<char>, end = start + 1 + i.  The
\* result is kept as chars for the comma loop.
type_args(t) ==
    LET cs == chars(t)
        start == byte_offset(cs, find(cs, "<"))
    IN  IF start + 1 > Len(cs) THEN Panic
        ELSE byte_slice(cs, start + 1, matching_end(cs, start + 1) - 1)

\* `results` after the top-level parse
top_level_segments(t) ==
    IF find(t, "<") = 0 THEN <<>>
    ELSE LET inside == type_args(t)
         IN  IF inside = Panic THEN <<Panic>>
             ELSE split_commas(inside, 1, 0, 0, <<>>)

RECURSIVE extract_all_inner_types(_), flatten_subs(_)

\* for sub in results { final_list.extend(extract_all_inner_types(&sub)) }
flatten_subs(results) ==
    IF results = <<>> THEN <<>>
    ELSE extract_all_inner_types(Head(results)) \o flatten_subs(Tail(results))

extract_all_inner_types(t) ==
    LET results == top_level_segments(t)
        final_list == flatten_subs(results)
    IN  IF results = <<>> THEN <<unwrap_type(t)>>
        ELSE IF \E k \in 1..Len(final_list) : final_list[k] = Panic THEN <<Panic>>
        ELSE final_list

----------------------------------------------------------------------------
(* Inputs of the string functions *)

Alphabet == {"&", " ", "<", ">", ",", ":", "Vec", "Box", "A", "U+00E9"}

Punct == {"&", " ", "\n", "<", ">", ",", ":"}

PlainIdents == {"A", "B", "Order", "String"}

\* every string of at most n tokens of Alphabet
Strings(n) == UNION {[1..k -> Alphabet] : k \in 0..n}

Wrapped1 == {<<w, "<", t, ">">> : w \in wrappers, t \in PlainIdents}

Wrapped2 == {<<w1, "<", w2, "<", t, ">", ">">> :
                w1 \in wrappers, w2 \in wrappers, t \in PlainIdents}

MapOfWrapped == {<<"HashMap", "<", a, ",", " ", w, "<", b, ">", ">">> :
                    a \in PlainIdents, w \in wrappers, b \in PlainIdents}

PathQualified ==
    {<<"module", ":", ":", "Sub", ":", ":", t>> : t \in PlainIdents \cup {"Type"}}
    \cup {<<"std", ":", ":", w, "<", t, ">">> : w \in wrappers, t \in PlainIdents}
    \cup {<<"&", "mod", ":", ":", t, " ">> : t \in PlainIdents}

TypeInputs == Strings(MaxLen) \cup Wrapped1 \cup Wrapped2 \cup MapOfWrapped
              \cup PathQualified

----------------------------------------------------------------------------
(* The harness: one input, the functions applied to it *)

IdleRun ==
    /\ prog = "none"
    /\ struct_names = {}
    /\ enum_names = {}
    /\ relationships = <<>>
    /\ class_rels = {}
    /\ er_rels = <<>>
    /\ step = [op |-> "none"]
    /\ nsteps = 0
    /\ diagram_rels = {}
    /\ inserts = 0
    /\ files = {}
    /\ pc = "off"
    /\ output = <<>>
    /\ exit_code = -1

InitTypes ==
    /\ ty \in TypeInputs
    /\ call = "none"
    /\ ret = <<>>
    /\ ret2 = <<>>
    /\ leaves = <<>>
    /\ IdleRun
    /\ IdleTools

CallUnwrap ==
    /\ call = "none"
    /\ call' = "unwrap_type"
    /\ ret' = unwrap_type(ty)
    /\ UNCHANGED <<ty, ret2, leaves>>
    /\ UNCHANGED <<runVars, toolVars>>

CallUnwrapAgain ==
    /\ call = "unwrap_type"
    /\ call' = "unwrap_twice"
    /\ ret2' = unwrap_type(ret)
    /\ UNCHANGED <<ty, ret, leaves>>
    /\ UNCHANGED <<runVars, toolVars>>

CallExtract ==
    /\ call = "none"
    /\ call' = "extract_all_inner_types"
    /\ leaves' = extract_all_inner_types(ty)
    /\ UNCHANGED <<ty, ret, ret2>>
    /\ UNCHANGED <<runVars, toolVars>>

NextTypes == CallUnwrap \/ CallUnwrapAgain \/ CallExtract

SpecTypes == InitTypes /\ [][NextTypes]_vars

----------------------------------------------------------------------------
(* Claims about unwrap_type and extract_all_inner_types (SpecTypes) *)

WrapperVocabulary ==
    {"Option", "Result", "Box", "Arc", "Rc", "Mutex", "HashSet", "Vec", "HashMap"}

IsPlainIdent(c) == c \notin Punct

\* ty is W<T>: a wrapper of the vocabulary around one plain identifier
IsWrapped1(s) ==
    /\ Len(s) = 4
    /\ s[1] \in WrapperVocabulary /\ s[2] = "<" /\ IsPlainIdent(s[3]) /\ s[4] = ">"

\* ty is W1<W2<T>>
IsWrapped2(s) ==
    /\ Len(s) = 7
    /\ s[1] \in WrapperVocabulary /\ s[2] = "<"
    /\ s[3] \in WrapperVocabulary /\ s[4] = "<"
    /\ IsPlainIdent(s[5]) /\ s[6] = ">" /\ s[7] = ">"

\* C1: for every wrapper name W of the vocabulary and every plain identifier T,
\* unwrap_type("W<T>") returns T, and for all wrapper names W1, W2,
\* unwrap_type("W1<W2<T>>") returns T.
C1_WrappersReduce ==
    call = "unwrap_type" =>
        /\ IsWrapped1(ty) => ret = <<ty[3]>>
        /\ IsWrapped2(ty) => ret = <<ty[5]>>

C1_Witness ==
    /\ call = "unwrap_type"
    /\ ty = <<"Option", "<", "Box", "<", "Order", ">", ">">>
    /\ ret = <<"Order">>

\* C2: extract_all_inner_types("HashMap<A, Vec<B>>") returns exactly <<"A", "B">>;
\* for a map of two arguments, the second one wrapped, the leaves of the
\* top-level arguments come out in left-to-right order and nothing else does.
C2_MapLeavesInOrder ==
    call = "extract_all_inner_types" =>
        /\ ty = <<"HashMap", "<", "A", ",", " ", "Vec", "<", "B", ">", ">">>
              => leaves = << <<"A">>, <<"B">> >>
        /\ \A a \in PlainIdents, b \in PlainIdents, w \in WrapperVocabulary :
              ty = <<"HashMap", "<", a, ",", " ", w, "<", b, ">", ">">>
                  => leaves = << <<a>>, <<b>> >>

C2_Witness ==
    /\ call = "extract_all_inner_types"
    /\ ty = <<"HashMap", "<", "A", ",", " ", "Vec", "<", "B", ">", ">">>
    /\ leaves = << <<"A">>, <<"B">> >>

\* C3: unwrap_type is idempotent: for every input x,
\* unwrap_type(unwrap_type(x)) = unwrap_type(x).
C3_UnwrapIdempotent ==
    call = "unwrap_twice" => ret2 = ret

\* the expression after its leading white space and reference sigils
AfterSigils(s) ==
    LET keep == {i \in 1..Len(s) : s[i] \notin {" ", "\n", "&"}}
    IN  IF keep = {} THEN <<>> ELSE SubSeq(s, Min(keep), Len(s))

NoWrapperPrefix(s) ==
    LET r == AfterSigils(s)
    IN  ~(Len(r) >= 2 /\ r[1] \in WrapperVocabulary /\ r[2] = "<")

ColonPairs(s) == {i \in 1..(Len(s) - 1) : s[i] = ":" /\ s[i + 1] = ":"}

\* s is the text of x after its last "::", without surrounding white space
IsTextAfterLastPath(s, x) ==
    \E i \in ColonPairs(x) :
        /\ \A j \in ColonPairs(x) : j <= i
        /\ \E lo \in (i + 2)..(Len(x) + 1), hi \in (i + 1)..Len(x) :
              /\ s = SubSeq(x, lo, hi)
              /\ \A k \in (i + 2)..(lo - 1) : x[k] \in {" ", "\n"}
              /\ \A k \in (hi + 1)..Len(x) : x[k] \in {" ", "\n"}
              /\ s # <<>> => (s[1] \notin {" ", "\n"} /\ s[Len(s)] \notin {" ", "\n"})
              /\ s = <<>> => \A k \in (i + 2)..Len(x) : x[k] \in {" ", "\n"}

\* C4: for a type expression with no wrapper prefix that contains "::",
\* unwrap_type returns only the text after the last "::", trimmed;
\* unwrap_type("module::Sub::Type") = "Type".
C4_LastPathSegment ==
    call = "unwrap_type" =>
        /\ (NoWrapperPrefix(ty) /\ ColonPairs(ty) # {}) => IsTextAfterLastPath(ret, ty)
        /\ ty = <<"module", ":", ":", "Sub", ":", ":", "Type">> => ret = <<"Type">>

C4_Witness ==
    /\ call = "unwrap_type"
    /\ ty = <<"module", ":", ":", "Sub", ":", ":", "Type">>
    /\ ret = <<"Type">>

----------------------------------------------------------------------------
(* connections.rs / not_state_diagram.rs: main, direct-match derivation *)

\* a String holding one identifier
S(id) == <<id>>

\* field_regex, capture group 2, trimmed: `\s*:\s*([^,]+)` takes the declared
\* type up to its first comma
field_regex_type(text) ==
    LET comma == find(text, ",")
    IN  trim(IF comma = 0 THEN text ELSE SubSeq(text, 1, comma - 1))

has_edges_unfiltered(struct_name, types_found, known_classes) ==
    [i \in 1..Len(types_found) |-> <<struct_name, S("has"), types_found[i]>>]

\* for t in types_found { if known_classes.contains(&t) { push (struct, "has", t) } }
has_edges(struct_name, types_found, known_classes) ==
    LET keep(t) == t \in known_classes
        kept == SelectSeq(types_found, keep)
    IN  [i \in 1..Len(kept) |-> <<struct_name, S("has"), kept[i]>>]

\* what one field of a struct block adds to relationships
field_edges(struct_name, text, known_classes) ==
    has_edges(struct_name, extract_all_inner_types(field_regex_type(text)), known_classes)

\* what one fn declaration of an impl block adds to relationships
method_edges(struct_name, fn_name, ret_ty_raw, known_classes) ==
    IF fn_name = S("new") THEN <<>>
    ELSE IF ret_ty_raw = <<>> THEN <<>>
    ELSE LET simplified == unwrap_type(ret_ty_raw)
         IN  IF simplified \in known_classes
             THEN << <<struct_name, fn_name, simplified>> >>
             ELSE <<>>

----------------------------------------------------------------------------
(* syn::Type, as far as class_diagram.rs and state_diagram.rs look at it *)

\* Type::Path: the idents of the path segments and the generic arguments of the
\* last segment
Path(segs, args) == [kind |-> "Path", segs |-> segs, args |-> args]
Plain(id) == Path(<<id>>, <<>>)
Generic(id, args) == Path(<<id>>, args)
Reference(elem) == [kind |-> "Reference", segs |-> <<>>, args |-> <<elem>>]
Tuple(elems) == [kind |-> "Tuple", segs |-> <<>>, args |-> elems]
Array(elem) == [kind |-> "Array", segs |-> <<>>, args |-> <<elem>>]
Paren(elem) == [kind |-> "Paren", segs |-> <<>>, args |-> <<elem>>]
\* any other Type variant (slice, fn pointer, trait object, ...)
OtherType == [kind |-> "Other", segs |-> <<>>, args |-> <<>>]
\* GenericArgument::Lifetime, an argument that is no GenericArgument::Type
Lifetime == [kind |-> "Lifetime", segs |-> <<>>, args |-> <<>>]

last_ident(t) == t.segs[Len(t.segs)]

----------------------------------------------------------------------------
(* class_diagram.rs: typed-label derivation *)

\* generic_args.join(", ")
RECURSIVE join(_)
join(strs) ==
    IF strs = <<>> THEN <<>>
    ELSE IF Len(strs) = 1 THEN strs[1]
    ELSE strs[1] \o <<",", " ">> \o join(Tail(strs))

RECURSIVE get_type_name(_), get_type_names(_)

\* args.iter().filter_map(GenericArgument::Type => get_type_name).collect()
get_type_names(args) ==
    IF args = <<>> THEN <<>>
    ELSE IF Head(args).kind = "Lifetime" THEN get_type_names(Tail(args))
    ELSE <<get_type_name(Head(args))>> \o get_type_names(Tail(args))

get_type_name(t) ==
    IF t.kind = "Path"
    THEN LET generic_args == get_type_names(t.args)
         IN  IF generic_args # <<>>
             THEN <<last_ident(t)>> \o <<"<">> \o join(generic_args) \o <<">">>
             ELSE <<last_ident(t)>>
    ELSE IF t.kind = "Reference" THEN get_type_name(t.args[1])
    ELSE <<"unknown">>

\* s.split(c): the pieces of s between the occurrences of c
RECURSIVE split(_, _)
split(s, c) ==
    LET p == find(s, c)
    IN  IF p = 0 THEN <<s>>
        ELSE <<SubSeq(s, 1, p - 1)>> \o split(SubSeq(s, p + 1, Len(s)), c)

\* s.trim_end_matches(c)
trim_end_matches(s, c) ==
    LET keep == {i \in 1..Len(s) : s[i] # c}
    IN  IF keep = {} THEN <<>> ELSE SubSeq(s, 1, Max(keep))

\* s.trim_start_matches(c)
trim_start_matches(s, c) ==
    LET keep == {i \in 1..Len(s) : s[i] # c}
    IN  IF keep = {} THEN <<>> ELSE SubSeq(s, Min(keep), Len(s))

\* s.trim_start_matches("mut ")
RECURSIVE trim_start_mut(_)
trim_start_mut(s) ==
    IF starts_with(s, <<"mut", " ">>) THEN trim_start_mut(SubSeq(s, 3, Len(s))) ELSE s

clean_param(param) == trim_start_mut(trim_start_matches(trim(param), "&"))

generic_part_untrimmed(parts) == parts[2]

\* parts[1].trim_end_matches('>')
generic_part(parts) == trim_end_matches(parts[2], ">")

\* TypeInfo { base_type, generic_params }
parse_type_with_generics(type_str) ==
    LET parts == split(type_str, "<")
        params == IF Len(parts) > 1 THEN split(generic_part(parts), ",") ELSE <<>>
    IN  [base_type |-> trim(parts[1]),
         generic_params |-> [i \in 1..Len(params) |-> clean_param(params[i])]]

Relationship(from, to, relationship_type) ==
    [from |-> from, to |-> to, relationship_type |-> relationship_type]

uses_containers == {S("Option"), S("Vec"), S("HashMap")}

\* the Relationships one field of one struct inserts (the body of the inner loop
\* of extract_relationships)
class_field_rels(name, type_name, structs, enums) ==
    LET type_info == parse_type_with_generics(type_name)
        base == type_info.base_type
        gp == type_info.generic_params
    IN  IF base \in enums THEN {Relationship(name, base, "has")}
        ELSE (IF base \in structs THEN {Relationship(name, base, "has")} ELSE {})
             \cup
             (IF base \in uses_containers
              THEN {Relationship(name, base, "uses")}
                   \cup {Relationship(name, gp[i], "contains") :
                            i \in {j \in 1..Len(gp) : gp[j] \in structs \/ gp[j] \in enums}}
              ELSE {})

----------------------------------------------------------------------------
(* state_diagram.rs: cardinality derivation *)

collection_types == {"Vec", "HashMap", "HashSet", "BTreeMap", "BTreeSet", "Option", "Box"}

is_collection_type_no_option(id) == id \in collection_types \ {"Option"}

is_collection_type(id) == id \in collection_types

external_types == {"Vec", "HashMap", "HashSet", "Option", "Result", "Box", "Rc", "Arc",
                   "Mutex", "RefCell", "String", "BTreeMap", "BTreeSet"}

is_external_type(id) == id \in external_types

\* acc is (types, is_collection), passed by &mut in the source
RECURSIVE extract_types_recursive(_, _), extract_types_each(_, _)

\* for arg in args { if Type(inner) = arg { extract_types_recursive(inner, ..) } }
extract_types_each(elems, acc) ==
    IF elems = <<>> THEN acc
    ELSE extract_types_each(Tail(elems), extract_types_recursive(Head(elems), acc))

extract_types_recursive(t, acc) ==
    IF t.kind = "Path"
    THEN IF is_collection_type(last_ident(t))
         THEN extract_types_each(t.args, [acc EXCEPT !.is_collection = TRUE])
         ELSE extract_types_each(t.args,
                                 [acc EXCEPT !.types = Append(@, last_ident(t))])
    ELSE IF t.kind \in {"Reference", "Tuple", "Array", "Paren"}
         THEN extract_types_each(t.args, acc)
    ELSE acc

extract_types_from_type(t) ==
    extract_types_recursive(t, [types |-> <<>>, is_collection |-> FALSE])

StructRelationship(source, field, target, cardinality) ==
    [source |-> source, field |-> field, target |-> target, cardinality |-> cardinality]

cardinality_of(is_collection) == IF is_collection THEN "||--o{" ELSE "||--||"

matching_types_any(types, names) ==
    SelectSeq(types, LAMBDA id : ~is_external_type(id))

\* the catalog members among types, external types skipped, in order
matching_types(types, names) ==
    SelectSeq(types, LAMBDA id : ~is_external_type(id) /\ S(id) \in names)

first_match_all(matches) == matches

\* `return Some(..)` at the first match: the for loop stops there
first_match(matches) == IF matches = <<>> THEN <<>> ELSE <<matches[1]>>

\* get_field_relationship and the push of extract_struct_relationships: the
\* StructRelationships one field adds (none or one)
er_field_rels(source, field, names) ==
    LET field_name == IF field.ident = "" THEN "unnamed_field" ELSE field.ident
        found == extract_types_from_type(field.ty)
        hit == first_match(matching_types(found.types, names))
    IN  [i \in 1..Len(hit) |->
            StructRelationship(source, field_name, S(hit[i]),
                               cardinality_of(found.is_collection))]

----------------------------------------------------------------------------
(* Inputs of the generators *)

User == S("User")
Order == S("Order")
Profile == S("Profile")
Item == S("Item")

\* (struct names, enum names) of the scanned declarations
Catalogs == { <<{User, Order}, {}>>,
              <<{User, Order, Profile}, {}>>,
              <<{User, Profile, Item}, {}>> }

ClassCatalogs == Catalogs \cup { <<{User}, {Order}>>,
                                 <<{User, Order, Profile}, {S("Status")}>> }

\* declared field types and return types, as written in architecture/*.rs
TypeTexts ==
    { <<"Order">>, <<"String">>, <<"Profile">>,
      <<"Vec", "<", "Order", ">">>,
      <<"Vec", "<", "Item", ">">>,
      <<"Option", "<", "Profile", ">">>,
      <<"Foo", "<", "Order", ">">>,
      <<"&", "Order">>,
      <<"Vec", "<", "Option", "<", "Order", ">", ">">>,
      <<"std", ":", ":", "Option", "<", "Order", ">">>,
      <<"HashMap", "<", "String", ",", " ", "String", ">">>,
      <<"HashMap", "<", "Order", ",", " ", "Profile", ">">>,
      <<"HashMap", "<", "UserId", ",", " ", "Vec", "<", "Order", ">", ">">>,
      <<"Result", "<", "Order", ",", " ", "Error", ">">> }

\* declared field types read by diagram.rs
DiagramTexts ==
    { <<"Order">>, <<"String">>, <<"UserId">>,
      <<"Vec", "<", "Order", ">">>,
      <<"HashMap", "<", "Order", ",", " ", "Profile", ">">>,
      <<"HashMap", "<", "UserId", ",", " ", "Vec", "<", "Order", ">", ">">> }

FnNames == {S("new"), S("get_order")}

\* fn declarations of the impl blocks: (name, declared return type), <<>> for a
\* fn without `->`
Methods == ({S("get_order")} \X (TypeTexts \cup {<<>>}))
           \cup ({S("new")} \X {<<"Order">>, <<"Self">>, <<>>})

StringT == Plain("String")

TypeAsts ==
    { Plain("Order"), Plain("Profile"), StringT, Plain("Error"),
      Generic("Option", <<Plain("Profile")>>),
      Generic("Vec", <<Plain("Item")>>),
      Generic("Vec", <<Plain("Order")>>),
      Generic("Box", <<Plain("Profile")>>),
      Generic("Vec", <<StringT>>),
      Generic("HashMap", <<StringT, StringT>>),
      Generic("HashMap", <<Plain("Order"), Plain("Profile")>>),
      Generic("HashMap", <<StringT, Generic("Vec", <<Plain("Order")>>)>>),
      Generic("Vec", <<Generic("Option", <<Plain("Order")>>)>>),
      Generic("Result", <<Plain("Order"), Plain("Error")>>),
      Generic("Foo", <<Plain("Profile"), Generic("Vec", <<StringT>>)>>),
      Generic("Cow", <<Lifetime, Plain("Order")>>),
      Path(<<"std", "vec", "Vec">>, <<Plain("Order")>>),
      Tuple(<<Plain("Order"), Plain("Profile")>>),
      Tuple(<<Plain("Profile"), Generic("Vec", <<StringT>>)>>),
      Reference(Plain("Order")),
      Array(Plain("Item")),
      Paren(Plain("Profile")),
      OtherType }

\* syn::Field: ident ("" for a tuple-struct field) and type
Fields == {[ident |-> "orders", ty |-> t] : t \in TypeAsts}
          \cup {[ident |-> "", ty |-> Plain("Order")]}

NamedFields == {f \in Fields : f.ident # ""}

----------------------------------------------------------------------------
(* diagram.rs: substring match on the declared type *)

\* identifiers of the inputs that hold another identifier as a proper substring
ProperSubstrings == {<<"UserId", "User">>}

\* str::contains for a pattern that is one identifier
contains(s, name) ==
    \E i \in 1..Len(s) : s[i] = name \/ <<s[i], name>> \in ProperSubstrings

\* format!("    {} --> {} : has\n", struct_def.name, other_struct.name)
has_line(a, b) == <<"    ">> \o a \o <<" --> ">> \o b \o <<" : has">>

\* the lines one field of one struct inserts into the HashSet of generate_mermaid
diagram_field_lines(struct_name, type_name, structs) ==
    {has_line(struct_name, other) :
        other \in {o \in structs : contains(type_name, o[1])}}

----------------------------------------------------------------------------
(* Writing the diagram *)

\* writeln!(file, "    {} --> |{}| {}", a, label, b)
direct_line(e) == <<"    ">> \o e[1] \o <<" --> |">> \o e[2] \o <<"| ">> \o e[3]

\* format!("    {} --> {} : {}\n", rel.from, rel.to, rel.relationship_type)
class_line(rel) ==
    <<"    ">> \o rel.from \o <<" --> ">> \o rel.to \o <<" : ", rel.relationship_type>>

\* writeln!(file, "    {} {} {} : \"{}\"", rel.source, rel.cardinality, rel.target, rel.field)
er_line(rel) ==
    <<"    ">> \o rel.source \o <<" ", rel.cardinality, " ">> \o rel.target
        \o <<" : \"", rel.field, "\"">>

\* every sequence that lists each element of S once
RECURSIVE Orders(_)
Orders(set) ==
    IF set = {} THEN {<<>>}
    ELSE UNION {{<<x>> \o o : o \in Orders(set \ {x})} : x \in set}

hashset_iter_repeating(set) == {o \o o : o \in Orders(set)}

\* `for rel in relationships` over a HashSet: each element once, in an order the
\* hasher picks (std's RandomState is seeded per process)
hashset_iter(set) == Orders(set)

----------------------------------------------------------------------------
(* One run of a generator: main finds its input, reads the catalog, handles
   fields and methods one at a time, writes the diagram and exits.  The
   command line is well formed and the file system fails in no other way
   than by an input file being absent. *)

DirectProgs == {"connections", "not_state_diagram"}

Progs == DirectProgs \cup {"class_diagram", "state_diagram", "diagram"}

ImplsRs == "architecture/impls.rs"
StructsRs == "architecture/structs.rs"

\* the places each generator looks for its input
InputFiles(p) ==
    CASE p = "connections" -> {ImplsRs, StructsRs}
      [] p = "not_state_diagram" -> {StructsRs}
      [] p = "class_diagram" -> {"src/modules"}
      [] p = "state_diagram" -> {"./**/<filename>"}
      [] p = "diagram" -> {"<input_file>.rs", "architecture/<input_file>.rs"}

IdleTypes ==
    /\ ty = <<>>
    /\ call = "idle"
    /\ ret = <<>>
    /\ ret2 = <<>>
    /\ leaves = <<>>

Init ==
    /\ IdleTypes
    /\ IdleTools
    /\ prog \in Progs
    /\ files \in SUBSET InputFiles(prog)
    /\ pc = "start"
    /\ struct_names = {}
    /\ enum_names = {}
    /\ relationships = <<>>
    /\ class_rels = {}
    /\ er_rels = <<>>
    /\ diagram_rels = {}
    /\ inserts = 0
    /\ step = [op |-> "none", source |-> <<>>, input |-> <<>>, emitted |-> <<>>]
    /\ nsteps = 0
    /\ output = <<>>
    /\ exit_code = -1

\* diagram.rs 155-161 (eprintln!, std::process::exit(1)); state_diagram.rs 30-31
\* (find_file_in_current_dir returns Err, main returns it)
InputNotFound ==
    /\ pc = "start"
    /\ prog \in {"diagram", "state_diagram"}
    /\ files = {}
    /\ pc' = "exit"
    /\ exit_code' = 1
    /\ UNCHANGED <<prog, struct_names, enum_names, deriveVars, files, output>>
    /\ UNCHANGED <<typeVars, toolVars>>

\* connections.rs 150-168, not_state_diagram.rs 122-129 (`if path.exists()`: an
\* absent file is skipped), class_diagram.rs 63 and 79 (`if dir.is_dir()`),
\* diagram.rs 164-167, state_diagram.rs 34-42: the declared names are collected
ReadInputs(c) ==
    /\ pc = "start"
    /\ ~(prog \in {"diagram", "state_diagram"} /\ files = {})
    /\ struct_names' = IF files = {} THEN {} ELSE c[1]
    /\ enum_names' = IF files = {} THEN {} ELSE c[2]
    /\ pc' = "derive"
    /\ UNCHANGED <<prog, deriveVars, files, output, exit_code>>
    /\ UNCHANGED <<typeVars, toolVars>>

\* connections.rs 177-194, not_state_diagram.rs 139-153: one field of a struct block
DirectField(struct_name, text) ==
    /\ prog \in DirectProgs
    /\ pc = "derive"
    /\ StructsRs \in files
    /\ nsteps < MaxSteps
    /\ LET new == field_edges(struct_name, text, struct_names)
       IN  /\ relationships' = relationships \o new
           /\ step' = [op |-> "field", source |-> struct_name, input |-> text,
                       emitted |-> new]
    /\ nsteps' = nsteps + 1
    /\ UNCHANGED <<prog, struct_names, enum_names, class_rels, er_rels,
                   diagram_rels, inserts, files, pc, output, exit_code>>
    /\ UNCHANGED <<typeVars, toolVars>>

\* connections.rs 205-227: one fn declaration of an impl block
MethodReturn(struct_name, fn_name, ret_ty_raw) ==
    /\ prog = "connections"
    /\ pc = "derive"
    /\ ImplsRs \in files
    /\ nsteps < MaxSteps
    /\ LET new == method_edges(struct_name, fn_name, ret_ty_raw, struct_names)
       IN  /\ relationships' = relationships \o new
           /\ step' = [op |-> "method", source |-> struct_name, fn |-> fn_name,
                       input |-> ret_ty_raw, emitted |-> new]
    /\ nsteps' = nsteps + 1
    /\ UNCHANGED <<prog, struct_names, enum_names, class_rels, er_rels,
                   diagram_rels, inserts, files, pc, output, exit_code>>
    /\ UNCHANGED <<typeVars, toolVars>>

\* class_diagram.rs 156-204: one field of one struct
ClassField(name, field) ==
    /\ prog = "class_diagram"
    /\ pc = "derive"
    /\ nsteps < MaxSteps
    /\ LET new == class_field_rels(name, get_type_name(field.ty), struct_names,
                                   enum_names)
       IN  /\ class_rels' = class_rels \cup new
           /\ inserts' = inserts + Cardinality(new)
           /\ step' = [op |-> "field", source |-> name, input |-> field,
                       emitted |-> new]
    /\ nsteps' = nsteps + 1
    /\ UNCHANGED <<prog, struct_names, enum_names, relationships, er_rels,
                   diagram_rels, files, pc, output, exit_code>>
    /\ UNCHANGED <<typeVars, toolVars>>

\* state_diagram.rs 110-121: one field of one struct
ErField(source, field) ==
    /\ prog = "state_diagram"
    /\ pc = "derive"
    /\ nsteps < MaxSteps
    /\ LET new == er_field_rels(source, field, struct_names)
       IN  /\ er_rels' = er_rels \o new
           /\ step' = [op |-> "field", source |-> source, input |-> field,
                       emitted |-> new]
    /\ nsteps' = nsteps + 1
    /\ UNCHANGED <<prog, struct_names, enum_names, relationships, class_rels,
                   diagram_rels, inserts, files, pc, output, exit_code>>
    /\ UNCHANGED <<typeVars, toolVars>>

\* diagram.rs 107-117: one field of one struct, tried against every struct
DiagramField(struct_name, text) ==
    /\ prog = "diagram"
    /\ pc = "derive"
    /\ nsteps < MaxSteps
    /\ LET new == diagram_field_lines(struct_name, field_regex_type(text),
                                      struct_names)
       IN  /\ diagram_rels' = diagram_rels \cup new
           /\ inserts' = inserts + Cardinality(new)
           /\ step' = [op |-> "field", source |-> struct_name, input |-> text,
                       emitted |-> new]
    /\ nsteps' = nsteps + 1
    /\ UNCHANGED <<prog, struct_names, enum_names, relationships, class_rels,
                   er_rels, files, pc, output, exit_code>>
    /\ UNCHANGED <<typeVars, toolVars>>

\* connections.rs 231-264, not_state_diagram.rs 155-189: the header, one line per
\* element of the Vec, then the optional PNG step ("none": no --png flag)
EmitDirect(render) ==
    /\ prog \in DirectProgs
    /\ pc = "derive"
    /\ Len(relationships) <= MaxEmit
    /\ output' = <<S("graph LR"), <<>>>>
                 \o [i \in 1..Len(relationships) |-> direct_line(relationships[i])]
    /\ exit_code' = IF render = "failed" THEN 1 ELSE 0
    /\ pc' = "exit"
    /\ step' = [op |-> "emit"]
    /\ UNCHANGED <<prog, struct_names, enum_names, relationships, class_rels,
                   er_rels, diagram_rels, nsteps, inserts, files>>
    /\ UNCHANGED <<typeVars, toolVars>>

\* class_diagram.rs 329 and 366-372 (the class blocks of 331-363 hold no edge
\* and are left out), main 67-71
EmitClass ==
    /\ prog = "class_diagram"
    /\ pc = "derive"
    /\ Cardinality(class_rels) <= MaxEmit
    /\ \E order \in hashset_iter(class_rels) :
          output' = <<S("classDiagram")>>
                    \o [i \in 1..Len(order) |-> class_line(order[i])]
    /\ exit_code' = 0
    /\ pc' = "exit"
    /\ step' = [op |-> "emit"]
    /\ UNCHANGED <<prog, struct_names, enum_names, relationships, class_rels,
                   er_rels, diagram_rels, nsteps, inserts, files>>
    /\ UNCHANGED <<typeVars, toolVars>>

\* state_diagram.rs 262-281, main 51-55
EmitEr ==
    /\ prog = "state_diagram"
    /\ pc = "derive"
    /\ Len(er_rels) <= MaxEmit
    /\ output' = <<S("erDiagram")>>
                 \o [i \in 1..Len(er_rels) |-> er_line(er_rels[i])]
    /\ exit_code' = 0
    /\ pc' = "exit"
    /\ step' = [op |-> "emit"]
    /\ UNCHANGED <<prog, struct_names, enum_names, relationships, class_rels,
                   er_rels, diagram_rels, nsteps, inserts, files>>
    /\ UNCHANGED <<typeVars, toolVars>>

\* diagram.rs 74 and 119-121 (the class blocks of 78-104 hold no edge and are
\* left out), main 168-187
EmitDiagram ==
    /\ prog = "diagram"
    /\ pc = "derive"
    /\ Cardinality(diagram_rels) <= MaxEmit
    /\ \E order \in hashset_iter(diagram_rels) :
          output' = <<S("classDiagram")>> \o order
    /\ exit_code' = 0
    /\ pc' = "exit"
    /\ step' = [op |-> "emit"]
    /\ UNCHANGED <<prog, struct_names, enum_names, relationships, class_rels,
                   er_rels, diagram_rels, nsteps, inserts, files>>
    /\ UNCHANGED <<typeVars, toolVars>>

Next ==
    \/ InputNotFound
    \/ \E c \in (IF prog = "class_diagram" THEN ClassCatalogs ELSE Catalogs) :
          ReadInputs(c)
    \/ \E n \in struct_names, t \in TypeTexts : DirectField(n, t)
    \/ \E n \in struct_names, m \in Methods : MethodReturn(n, m[1], m[2])
    \/ \E n \in struct_names, f \in NamedFields : ClassField(n, f)
    \/ \E n \in struct_names, f \in Fields : ErField(n, f)
    \/ \E n \in struct_names, t \in DiagramTexts : DiagramField(n, t)
    \/ \E render \in {"none", "ok", "failed"} : EmitDirect(render)
    \/ EmitClass
    \/ EmitEr
    \/ EmitDiagram

Spec == Init /\ [][Next]_vars

----------------------------------------------------------------------------
(* Claims about the relationship derivation (Spec) *)

Catalog == struct_names \cup enum_names

VecOrder == <<"Vec", "<", "Order", ">">>

\* C5: direct-match mode: every leaf the splitter returns for the field's type
\* that is in the catalog produces the edge (source, "has", leaf), leaves outside
\* the catalog produce none; with catalog {User, Order} the field
\* orders: Vec<Order> on User produces (User, "has", Order).
C5_DirectMatch ==
    (prog \in DirectProgs /\ step.op = "field") =>
        LET found == extract_all_inner_types(field_regex_type(step.input))
            out == step.emitted
        IN  /\ \A i \in 1..Len(out) :
                  /\ out[i][1] = step.source
                  /\ out[i][2] = S("has")
                  /\ out[i][3] \in Catalog
                  /\ \E j \in 1..Len(found) : found[j] = out[i][3]
            /\ \A j \in 1..Len(found) :
                  found[j] \in Catalog =>
                      \E i \in 1..Len(out) : out[i] = <<step.source, S("has"), found[j]>>
            /\ (Catalog = {User, Order} /\ step.source = User /\ step.input = VecOrder)
                  => out = << <<User, S("has"), Order>> >>

C5_Witness ==
    /\ prog \in DirectProgs
    /\ step.op = "field"
    /\ Catalog = {User, Order}
    /\ step.source = User
    /\ step.input = VecOrder
    /\ relationships = << <<User, S("has"), Order>> >>

\* C6: typed-label mode: with catalog {User, Order} the field orders: Vec<Order>
\* on User produces (User, "uses", Vec) and (User, "contains", Order) and no
\* other edge.
C6_TypedLabel ==
    (/\ prog = "class_diagram"
     /\ step.op = "field"
     /\ Catalog = {User, Order}
     /\ step.source = User
     /\ step.input.ty = Generic("Vec", <<Plain("Order")>>))
        => step.emitted = {Relationship(User, S("Vec"), "uses"),
                           Relationship(User, Order, "contains")}

C6_Witness ==
    /\ prog = "class_diagram"
    /\ step.op = "field"
    /\ Catalog = {User, Order}
    /\ step.source = User
    /\ step.input.ty = Generic("Vec", <<Plain("Order")>>)
    /\ Relationship(User, Order, "contains") \in class_rels
    /\ Relationship(User, S("Vec"), "uses") \in class_rels

OneToOne == "||--||"
OneToMany == "||--o{"

IsErField(t) == prog = "state_diagram" /\ step.op = "field" /\ step.input.ty = t

ErFieldName == IF step.input.ident = "" THEN "unnamed_field" ELSE step.input.ident

\* C7 as claimed: cardinality mode: profile: Option<Profile> on User, Profile in
\* the catalog, yields the single edge (User, one-to-one, Profile);
\* items: Vec<Item>, Item in the catalog, yields (User, one-to-many, Item).
C7_Claimed ==
    /\ (IsErField(Generic("Option", <<Plain("Profile")>>)) /\ Profile \in struct_names)
          => step.emitted =
                <<StructRelationship(step.source, ErFieldName, Profile, OneToOne)>>
    /\ (IsErField(Generic("Vec", <<Plain("Item")>>)) /\ Item \in struct_names)
          => step.emitted =
                <<StructRelationship(step.source, ErFieldName, Item, OneToMany)>>

\* C7 amended: cardinality mode: profile: Option<Profile>, Profile in the
\* catalog, yields the single edge (User, one-to-many, Profile), Option being one
\* of the collection types; items: Vec<Item> yields (User, one-to-many, Item);
\* a field of the bare type Profile yields (User, one-to-one, Profile).
C7_Cardinality ==
    /\ (IsErField(Generic("Option", <<Plain("Profile")>>)) /\ Profile \in struct_names)
          => step.emitted =
                <<StructRelationship(step.source, ErFieldName, Profile, OneToMany)>>
    /\ (IsErField(Generic("Vec", <<Plain("Item")>>)) /\ Item \in struct_names)
          => step.emitted =
                <<StructRelationship(step.source, ErFieldName, Item, OneToMany)>>
    /\ (IsErField(Plain("Profile")) /\ Profile \in struct_names)
          => step.emitted =
                <<StructRelationship(step.source, ErFieldName, Profile, OneToOne)>>

C7_Witness ==
    /\ IsErField(Generic("Option", <<Plain("Profile")>>))
    /\ step.source = User
    /\ Profile \in struct_names
    /\ er_rels = <<StructRelationship(User, "orders", Profile, OneToMany)>>

\* the identifiers a syn::Type mentions, in the order they are written
RECURSIVE IdentsOf(_), IdentsOfAll(_)
IdentsOfAll(ts) ==
    IF ts = <<>> THEN <<>> ELSE IdentsOf(Head(ts)) \o IdentsOfAll(Tail(ts))
IdentsOf(t) ==
    (IF t.kind = "Path" THEN <<t.segs[Len(t.segs)]>> ELSE <<>>) \o IdentsOfAll(t.args)

Range(f) == {f[i] : i \in DOMAIN f}

\* the generators of the three derivation modes: direct match, typed label and
\* cardinality (diagram.rs matches substrings of the declared type instead)
ModeProgs == DirectProgs \cup {"class_diagram", "state_diagram"}

\* the field handled last mentions no catalog entity
NoCatalogMatch ==
    IF prog \in DirectProgs
    THEN \A i \in 1..Len(step.input) : S(step.input[i]) \notin Catalog
    ELSE \A id \in Range(IdentsOf(step.input.ty)) : S(id) \notin Catalog

NoEdges == IF prog = "class_diagram" THEN step.emitted = {} ELSE step.emitted = <<>>

MapStringString == <<"HashMap", "<", "String", ",", " ", "String", ">">>
MapStringStringAst == Generic("HashMap", <<StringT, StringT>>)

CatalogMentions ==
    SelectSeq(IdentsOf(step.input.ty), LAMBDA id : S(id) \in struct_names)

\* C9: cardinality mode emits at most one edge per field: when the field's type
\* mentions several catalog entities only the first one in traversal order
\* becomes an edge.
C9_AtMostOneEdge ==
    (prog = "state_diagram" /\ step.op = "field") =>
        /\ Len(step.emitted) <= 1
        /\ CatalogMentions = <<>> => step.emitted = <<>>
        /\ CatalogMentions # <<>> =>
              /\ Len(step.emitted) = 1
              /\ step.emitted[1].target = S(CatalogMentions[1])
              /\ step.emitted[1].source = step.source

C9_Witness ==
    /\ IsErField(Tuple(<<Plain("Order"), Plain("Profile")>>))
    /\ {Order, Profile} \subseteq struct_names
    /\ Len(step.emitted) = 1
    /\ step.emitted[1].target = Order

Targets(edges) == {edges[i][3] : i \in 1..Len(edges)}

\* C10: a method's return type is resolved like a field type in direct-match
\* mode: the targets of the edges of a method returning R are the targets of the
\* edges of a field of type R, the label being the method name; a return type
\* Result<Order, Error>, Order in the catalog, yields an edge to Order.
C10_ReturnLikeField ==
    (prog = "connections" /\ step.op = "method" /\ step.fn # S("new")) =>
        /\ Targets(step.emitted)
              = Targets(field_edges(step.source, step.input, struct_names))
        /\ \A i \in 1..Len(step.emitted) : step.emitted[i][2] = step.fn
        /\ (step.input = <<"Result", "<", "Order", ",", " ", "Error", ">">>
            /\ Order \in struct_names)
              => Order \in Targets(step.emitted)

----------------------------------------------------------------------------
(* Claims about the written diagram and the exit status (Spec) *)

\* the generators that collect their edges in a HashSet
SetProgs == {"class_diagram", "diagram"}

\* main has written the diagram file and returned
Written == pc = "exit" /\ output # <<>>

\* the edge lines of the written file: the lines that start with the indent
EdgeLines == SelectSeq(output, LAMBDA l : l # <<>> /\ l[1] = "    ")

NoRepeatedLine(lines) ==
    \A i, j \in 1..Len(lines) : i # j => lines[i] # lines[j]

\* C11 as claimed: the edge emitter deduplicates structurally identical edges: for
\* any sequence of derived edges the emitted diagram text never contains two
\* identical (source, label, target) edge lines; a struct with two fields of the
\* same catalog type yields one edge line.
C11_Claimed ==
    (Written /\ prog \in DirectProgs \cup SetProgs) => NoRepeatedLine(EdgeLines)

\* C11 amended: the generators that collect edges in a hash set (class_diagram,
\* diagram) never write two identical edge lines: an edge derived several times is
\* written once.  The generators that collect edges in a list (connections,
\* not_state_diagram) write one line per derived edge, in derivation order and
\* repeats included: there a struct with two fields of the same catalog type
\* yields two identical edge lines.
C11_SetVariantsDedup ==
    Written =>
        /\ prog \in SetProgs =>
              /\ NoRepeatedLine(EdgeLines)
              /\ Len(EdgeLines) = Cardinality(class_rels \cup diagram_rels)
        /\ prog \in DirectProgs =>
              EdgeLines = [i \in 1..Len(relationships) |-> direct_line(relationships[i])]

C11_Witness ==
    /\ Written
    /\ prog \in SetProgs
    /\ Len(EdgeLines) = 1
    /\ inserts = 2

\* the sequences that hold the elements of seq in another order
Reorderings(seq) ==
    {[i \in 1..Len(seq) |-> seq[o[i]]] : o \in Orders(1..Len(seq))}

\* C12: edge emitter output is independent of insertion order: for any two
\* orderings of the same collection of edges fed to the emitter, the emitted edge
\* lines are byte-identical (edges are written in a deterministic sorted order).
C12_OrderIndependent ==
    Written =>
        /\ prog \in DirectProgs =>
              \A r \in Reorderings(relationships) :
                 [i \in 1..Len(r) |-> direct_line(r[i])] = EdgeLines
        /\ prog = "class_diagram" =>
              \A o \in hashset_iter(class_rels) :
                 [i \in 1..Len(o) |-> class_line(o[i])] = EdgeLines
        /\ prog = "diagram" =>
              \A o \in hashset_iter(diagram_rels) : o = EdgeLines

\* the input the generator was started on is absent
InputMissing ==
    IF prog = "diagram" THEN files = {} ELSE files # InputFiles(prog)

\* C15: when the source file a generator reads does not exist, the generator
\* reports the problem and exits with a non-zero status; it never exits 0 having
\* written a diagram.
C15_MissingInputFails ==
    (pc = "exit" /\ InputMissing) => exit_code # 0

----------------------------------------------------------------------------
(* Claims about malformed input of the string functions (SpecTypes) *)

\* C14: for every input string, including ones with unbalanced or stray '<', '>'
\* and ',' characters and the empty string, unwrap_type and
\* extract_all_inner_types return a value without raising an error (no
\* out-of-range slice, no arithmetic underflow); unwrap_type("") returns the
\* empty string.
C14_NoPanic ==
    /\ call = "unwrap_type" => ret # Panic
    /\ call = "extract_all_inner_types" => leaves # <<Panic>>
    /\ (call = "unwrap_type" /\ ty = <<>>) => ret = <<>>

----------------------------------------------------------------------------
(* pipeline.rs, view_class_diagram.rs: scripts that run three commands in turn *)

\* how a started command can end: Command::status() returns an io error (the
\* command could not be started), the command exits with a code, or a signal
\* ends it (ExitStatus::code() is None)
Outcomes ==
    {[kind |-> "io_error", code |-> -1], [kind |-> "signal", code |-> -1]}
    \cup {[kind |-> "exit", code |-> c] : c \in {0, 1, 2, 101}}

\* ExitStatus::success
success(o) == o.kind = "exit" /\ o.code = 0

\* status.code().unwrap_or(d)
code_unwrap_or(o, d) == IF o.kind = "exit" THEN o.code ELSE d

\* the `cargo invoke ...` commands of each script, in order
commands(r) ==
    IF r = "pipeline"
    THEN <<"architecture", "structure structs", "visualize structs">>
    ELSE <<"architecture", "class_diagram", "view class_diagram">>

InitRunner ==
    /\ IdleTypes
    /\ IdleRun
    /\ IdleFmt
    /\ IdleInvoke
    /\ IdleMermaid
    /\ runner \in {"pipeline", "view_class_diagram"}
    /\ started = <<>>
    /\ runner_exit = -1

\* pipeline.rs 10-27: one turn of the for loop; `expect` panics (status 101) when
\* the command cannot be started, exit(code) ends the script after a failure,
\* main returns after the last command
PipelineStep(o) ==
    /\ runner = "pipeline"
    /\ runner_exit = -1
    /\ Len(started) < Len(commands(runner))
    /\ started' = Append(started, [command |-> commands(runner)[Len(started) + 1],
                                   outcome |-> o])
    /\ runner_exit' =
          IF o.kind = "io_error" THEN 101
          ELSE IF ~success(o) THEN code_unwrap_or(o, 1)
          ELSE IF Len(started') = Len(commands(runner)) THEN 0
          ELSE -1
    /\ UNCHANGED runner
    /\ UNCHANGED <<typeVars, runVars, fmtVars, invokeVars, mermaidVars>>

\* view_class_diagram.rs 5-23: one `Command::new(..).status()?`; `?` returns the
\* io error of a command that cannot be started, the ExitStatus is dropped
ViewStep(o) ==
    /\ runner = "view_class_diagram"
    /\ runner_exit = -1
    /\ Len(started) < Len(commands(runner))
    /\ started' = Append(started, [command |-> commands(runner)[Len(started) + 1],
                                   outcome |-> o])
    /\ runner_exit' =
          IF o.kind = "io_error" THEN 1
          ELSE IF Len(started') = Len(commands(runner)) THEN 0
          ELSE -1
    /\ UNCHANGED runner
    /\ UNCHANGED <<typeVars, runVars, fmtVars, invokeVars, mermaidVars>>

NextRunner ==
    \/ \E o \in Outcomes : PipelineStep(o)
    \/ \E o \in Outcomes : ViewStep(o)

SpecRunner == InitRunner /\ [][NextRunner]_vars

\* the command exited with a non-zero status
exited_nonzero(o) == o.kind = "exit" /\ o.code # 0

\* C16: in the multi-step runner scripts (pipeline, view_class_diagram) errors are
\* terminal: once a step's command exits with a non-zero status, no later step is
\* started and the runner itself ends with a non-zero status.
C16_ErrorsTerminal ==
    /\ \A k \in 1..(Len(started) - 1) : ~exited_nonzero(started[k].outcome)
    /\ (runner_exit # -1 /\ \E k \in 1..Len(started) : exited_nonzero(started[k].outcome))
          => runner_exit # 0

----------------------------------------------------------------------------
(* lint_mermaid.rs: MermaidFormatter.  A line of a diagram is a sequence of
   tokens: a blank (" "), a marker ("%%", ":::") or a run of other text; the
   formatted String is the sequence of its lines, <<>> for a line that holds
   only '\n'. *)

\* "    ".repeat(n)
repeat_indent(n) == [k \in 1..n |-> "    "]

\* MermaidFormatter::add_line: the line, indented, unless it is empty
add_line(text, level, line) ==
    IF line = <<>> THEN text ELSE Append(text, repeat_indent(level) \o line)

\* a subtraction that does not stop at zero
unchecked_sub1(n) == n - 1

\* usize::saturating_sub(1)
saturating_sub1(n) == IF n = 0 THEN 0 ELSE n - 1

end_level_kept(level) == level

\* the indent level at which "end" is written
end_level(level) == saturating_sub1(level)

\* trimmed.starts_with("%%{") || trimmed.starts_with("%%")
is_comment(trimmed) == trimmed # <<>> /\ trimmed[1] \in {"%%{", "%%"}

\* trimmed.contains(":::")
is_class_assignment(trimmed) == \E k \in 1..Len(trimmed) : trimmed[k] = ":::"

\* trimmed.starts_with("direction ")
is_direction(trimmed) == starts_with(trimmed, <<"direction", " ">>)

\* s.starts_with("subgraph")
is_subgraph(trimmed) == trimmed # <<>> /\ trimmed[1] = "subgraph"

\* the lines that carry ":::" in the inputs, in the byte order of their text
\* ("A-->B:::classB" < "C:::classC-->D")
ByteOrder == << <<"A-->B", ":::", "classB">>, <<"C", ":::", "classC", "-->D">> >>

\* Vec<String>::sort for strings of ByteOrder
RECURSIVE sort_from(_, _)
sort_from(v, r) ==
    IF r > Len(ByteOrder) THEN <<>>
    ELSE SelectSeq(v, LAMBDA x : x = ByteOrder[r]) \o sort_from(v, r + 1)

sort(v) == sort_from(v, 1)

\* for assignment in assignments { self.add_line(&assignment) }
RECURSIVE add_lines(_, _, _)
add_lines(text, level, ls) ==
    IF ls = <<>> THEN text
    ELSE add_lines(add_line(text, level, Head(ls)), level, Tail(ls))

\* the lines the inputs are made of
FmtVocabulary ==
    { <<>>,
      <<"graph", " ", "TD">>,
      <<"A-->B">>,
      <<" ", " ", " ", "C --> D">>,
      <<"subgraph", " ", "One">>,
      <<"end">>,
      <<"direction", " ", "LR">>,
      <<"%%", " ", "note">>,
      <<"A-->B", ":::", "classB">>,
      <<" ", "C", ":::", "classC", "-->D">> }

GraphTD == <<"graph", " ", "TD">>
SubgraphOne == <<"subgraph", " ", "One">>
SubgraphTwo == <<"subgraph", " ", "Two">>

\* the inputs of the tests of lint_mermaid.rs
test_basic_formatting == <<GraphTD, <<"A-->B">>, <<" ", " ", " ", "C --> D">>>>
test_subgraph_formatting == <<GraphTD, SubgraphOne, <<"A-->B">>, <<"end">>>>
test_nested_subgraphs ==
    <<GraphTD, SubgraphOne, SubgraphTwo, <<"A-->B">>, <<"end">>, <<"end">>>>
test_direction_statements ==
    <<GraphTD, SubgraphOne, <<"direction", " ", "LR">>, <<"A-->B">>, <<"end">>>>
test_class_assignments ==
    <<GraphTD, <<"A-->B", ":::", "classB">>, <<"C", ":::", "classC", "-->D">>>>

FmtInputs ==
    UNION {[1..n -> FmtVocabulary] : n \in 0..MaxLines}
    \cup {test_basic_formatting, test_subgraph_formatting, test_nested_subgraphs,
          test_direction_statements, test_class_assignments}

InitFmt ==
    /\ IdleTypes
    /\ IdleRun
    /\ IdleRunner
    /\ IdleInvoke
    /\ IdleMermaid
    /\ fmt_lines \in FmtInputs
    /\ fmt_i = 0
    /\ formatted = <<>>
    /\ indent_level = 0
    /\ in_subgraph = FALSE
    /\ class_assignments = <<>>
    /\ fmt_pc = "loop"

\* lint_mermaid.rs 35-107: one turn of the while loop
FormatLine ==
    /\ fmt_pc = "loop"
    /\ fmt_i < Len(fmt_lines)
    /\ LET trimmed == trim(fmt_lines[fmt_i + 1])
       IN  IF trimmed = <<>>
           THEN UNCHANGED <<formatted, indent_level, in_subgraph, class_assignments>>
           ELSE IF is_comment(trimmed)
           THEN /\ formatted' = add_line(formatted, indent_level, trimmed)
                /\ UNCHANGED <<indent_level, in_subgraph, class_assignments>>
           ELSE IF is_class_assignment(trimmed)
           THEN /\ class_assignments' = Append(class_assignments, trimmed)
                /\ UNCHANGED <<formatted, indent_level, in_subgraph>>
           ELSE IF is_direction(trimmed)
           THEN /\ formatted' = add_line(formatted, indent_level, trimmed)
                /\ UNCHANGED <<indent_level, in_subgraph, class_assignments>>
           ELSE IF is_subgraph(trimmed)
           THEN /\ formatted' = add_line(formatted, indent_level, trimmed)
                /\ indent_level' = indent_level + 1
                /\ in_subgraph' = TRUE
                /\ UNCHANGED class_assignments
           ELSE IF trimmed = <<"end">>
           THEN /\ indent_level' = saturating_sub1(indent_level)
                /\ formatted' = add_line(formatted, end_level(indent_level), <<"end">>)
                /\ in_subgraph' = FALSE
                /\ UNCHANGED class_assignments
           ELSE /\ formatted' = add_line(formatted, indent_level, trimmed)
                /\ UNCHANGED <<indent_level, in_subgraph, class_assignments>>
    /\ fmt_i' = fmt_i + 1
    /\ UNCHANGED <<fmt_lines, fmt_pc>>
    /\ UNCHANGED <<typeVars, runVars, runnerVars, invokeVars, mermaidVars>>

\* lint_mermaid.rs 109-117: the class assignments, sorted, after an empty line
FormatEnd ==
    /\ fmt_pc = "loop"
    /\ fmt_i = Len(fmt_lines)
    /\ formatted' = IF class_assignments = <<>> THEN formatted
                    ELSE add_lines(Append(formatted, <<>>), indent_level,
                                   sort(class_assignments))
    /\ class_assignments' = <<>>
    /\ fmt_pc' = "done"
    /\ UNCHANGED <<fmt_lines, fmt_i, indent_level, in_subgraph>>
    /\ UNCHANGED <<typeVars, runVars, runnerVars, invokeVars, mermaidVars>>

NextFmt == FormatLine \/ FormatEnd

SpecFmt == InitFmt /\ [][NextFmt]_vars

----------------------------------------------------------------------------
(* Claims about format_mermaid (SpecFmt) *)

\* the non-blank input lines, trimmed, in input order
FmtTrimmed ==
    SelectSeq([k \in 1..Len(fmt_lines) |-> trim(fmt_lines[k])], LAMBDA l : l # <<>>)

\* the input lines that carry a ":::" annotation
Annotated == SelectSeq(FmtTrimmed, LAMBDA l : \E k \in 1..Len(l) : l[k] = ":::")

\* the input lines without annotation: each is written where it stands
InPlace == SelectSeq(FmtTrimmed, LAMBDA l : \A k \in 1..Len(l) : l[k] # ":::")

IsSubgraphLine(l) == l[1] = "subgraph"
IsEndLine(l) == l = <<"end">>
IsHeaderLine(l) == starts_with(l, <<"graph", " ">>)
IsStatementLine(l) ==
    /\ ~IsSubgraphLine(l) /\ ~IsEndLine(l) /\ ~IsHeaderLine(l)
    /\ l[1] \notin {"%%", "%%{", "direction"}

\* the number of subgraphs open after the first k lines of ls
RECURSIVE OpenAfter(_, _)
OpenAfter(ls, k) ==
    IF k = 0 THEN 0
    ELSE LET before == OpenAfter(ls, k - 1)
         IN  IF IsSubgraphLine(ls[k]) THEN before + 1
             ELSE IF IsEndLine(ls[k]) /\ before > 0 THEN before - 1
             ELSE before

\* the subgraph line that the "end" at position j of ls closes
MatchingSubgraph(ls, j) ==
    Max({m \in 1..(j - 1) : /\ IsSubgraphLine(ls[m])
                            /\ OpenAfter(ls, m - 1) = OpenAfter(ls, j - 1) - 1})

\* the number of four-space indents an output line starts with, and the rest
RECURSIVE LeadingIndent(_)
LeadingIndent(l) ==
    IF l # <<>> /\ l[1] = "    " THEN 1 + LeadingIndent(Tail(l)) ELSE 0

Content(l) == SubSeq(l, LeadingIndent(l) + 1, Len(l))

C18_TopLevelIndented ==
    (fmt_pc = "done" /\ InPlace # <<>> /\ IsHeaderLine(InPlace[1])) =>
        /\ formatted[1] = InPlace[1]
        /\ \A j \in 2..Len(InPlace) :
              (IsStatementLine(InPlace[j]) /\ OpenAfter(InPlace, j - 1) = 0)
                 => formatted[j] = <<"    ">> \o InPlace[j]
        /\ fmt_lines = test_basic_formatting =>
              formatted = <<GraphTD, <<"    ", "A-->B">>, <<"    ", "C --> D">>>>

\* a statement with its ":::class" annotations removed
RECURSIVE strip_annotations(_)
strip_annotations(l) ==
    IF l = <<>> THEN <<>>
    ELSE IF l[1] = ":::" THEN strip_annotations(SubSeq(l, 3, Len(l)))
    ELSE <<l[1]>> \o strip_annotations(Tail(l))

\* every non-blank input line as it is to stand in its place
KeptInPlace == [k \in 1..Len(FmtTrimmed) |-> strip_annotations(FmtTrimmed[k])]

\* C19: for input lines carrying a ':::' class annotation, format_mermaid keeps the
\* statement in its place with the ':::class' annotations removed, and appends the
\* original annotated lines, sorted lexicographically and unindented, after one
\* blank line at the end of the output: "graph TD\nA-->B:::classB\nC:::classC-->D\n"
\* formats to "graph TD\n    A-->B\n    C-->D\n\nA-->B:::classB\nC:::classC-->D\n"
\* (the indentation of the lines kept in place is C18's and is not compared here).
C19_ClassAssignments ==
    (fmt_pc = "done" /\ Annotated # <<>>) =>
        /\ Len(formatted) = Len(KeptInPlace) + 1 + Len(Annotated)
        /\ \A j \in 1..Len(KeptInPlace) : Content(formatted[j]) = KeptInPlace[j]
        /\ formatted[Len(KeptInPlace) + 1] = <<>>
        /\ SubSeq(formatted, Len(KeptInPlace) + 2, Len(formatted)) = sort(Annotated)

----------------------------------------------------------------------------
(* dynamic.rs, src/main.rs: the task runner `cargo invoke <name> [args...]` *)

\* the two directories that are listed: the current directory and its src/bin
\* (main.rs looks only into src/bin, of the directory it was built in)
RootDir == "."
BinDir == "src/bin"
search_paths == <<RootDir, BinDir>>

\* a directory entry is [dir, stem, ext]: Path::file_stem and Path::extension
DirEntry(dir, stem, ext) == [dir |-> dir, stem |-> stem, ext |-> ext]

\* the file names that occur, and the order of their stems under String::cmp
\* (which is also the order of their lowercase forms)
FileNames == {<<"diagram", "rs">>, <<"main", "rs">>, <<"lib", "rs">>,
              <<"notes", "md">>, <<"commands", "toml">>}
NameOrder == <<"commands", "diagram", "lib", "main", "notes">>

\* the filter of find_scripts that lets every .rs file through
is_script_any_rs(path) == path.ext = "rs"

\* path.extension() == "rs" and the file stem is neither main nor lib
is_script(path) ==
    /\ path.ext = "rs"
    /\ path.stem # "main" /\ path.stem # "lib"

\* the scripts found in one directory, as Script values, for one name
scripts_named(listing, dir, name) ==
    IF \E e \in listing : e.dir = dir /\ e.stem = name /\ is_script(e)
    THEN LET e == CHOOSE e \in listing : e.dir = dir /\ e.stem = name /\ is_script(e)
         IN  <<[name |-> name, path |-> e]>>
    ELSE <<>>

\* find_scripts: the scripts of both directories, sorted by name (the sort is
\* stable, so a name found twice keeps the current directory's script first)
RECURSIVE find_scripts_from(_, _)
find_scripts_from(listing, k) ==
    IF k > Len(NameOrder) THEN <<>>
    ELSE scripts_named(listing, search_paths[1], NameOrder[k])
         \o scripts_named(listing, search_paths[2], NameOrder[k])
         \o find_scripts_from(listing, k + 1)

find_scripts(listing) == find_scripts_from(listing, 1)

\* cmd_path.exists() for bin_dir()/<cmd_name>.rs
cmd_path_exists(listing, cmd_name) ==
    \E e \in listing : e.dir = BinDir /\ e.stem = cmd_name /\ e.ext = "rs"

\* get_available_commands: the manifest's commands that have a script, sorted
RECURSIVE get_available_commands_from(_, _, _)
get_available_commands_from(commands_toml, listing, k) ==
    IF k > Len(NameOrder) THEN <<>>
    ELSE (IF NameOrder[k] \in commands_toml /\ cmd_path_exists(listing, NameOrder[k])
          THEN <<NameOrder[k]>> ELSE <<>>)
         \o get_available_commands_from(commands_toml, listing, k + 1)

get_available_commands(commands_toml, listing) ==
    get_available_commands_from(commands_toml, listing, 1)

\* load_commands_manifest succeeds when bin_dir()/commands.toml can be read
manifest_readable(listing) ==
    \E e \in listing : e.dir = BinDir /\ e.stem = "commands" /\ e.ext = "toml"

\* the arguments that are looked at: without "invoke" when called as `cargo invoke`
invoke_args(original_args) ==
    IF Len(original_args) >= 1 /\ original_args[1] = "invoke"
    THEN SubSeq(original_args, 2, Len(original_args))
    ELSE original_args

is_help(arg) == arg \in {"--help", "-h"}

\* the command lines of compile_script, run_script and of main.rs
compile_command(name) == <<"cargo", "build", "--bin", name>>
run_command(name, script_args) == <<"cargo", "run", "--bin", name, "--">> \o script_args
direct_command(name, script_args) == <<name>> \o script_args

\* the command lines a user types
CommandLines ==
    {<<>>, <<"--help">>, <<"-h">>, <<"invoke">>, <<"invoke", "diagram">>,
     <<"invoke", "--help">>, <<"diagram">>, <<"diagram", "--help">>,
     <<"diagram", "x">>, <<"main">>, <<"lib">>, <<"notes">>, <<"commands">>,
     <<"unknown">>}

Listings(t) ==
    IF t = "dynamic"
    THEN SUBSET {DirEntry(d, f[1], f[2]) : d \in {RootDir, BinDir},
                                       f \in FileNames \ {<<"commands", "toml">>}}
    ELSE SUBSET {DirEntry(BinDir, f[1], f[2]) : f \in FileNames \ {<<"lib", "rs">>}}

Manifests(t) ==
    IF t = "dynamic" THEN {{}} ELSE SUBSET {"diagram", "main", "notes"}

InitInvoke ==
    /\ IdleTypes
    /\ IdleRun
    /\ IdleRunner
    /\ IdleFmt
    /\ IdleMermaid
    /\ tool \in {"dynamic", "main"}
    /\ entries \in Listings(tool)
    /\ manifest \in Manifests(tool)
    /\ argv \in CommandLines
    /\ spawned = <<>>
    /\ invoke_pc = "start"
    /\ invoke_exit = -1

InvokeFinish(code) ==
    /\ invoke_pc' = "done"
    /\ invoke_exit' = code
    /\ UNCHANGED <<tool, entries, manifest, argv>>
    /\ UNCHANGED <<typeVars, runVars, runnerVars, fmtVars, mermaidVars>>

\* dynamic.rs main up to its first command: create_dir_all may fail; no
\* arguments, a help flag or an unknown name print the help and return Ok
DynamicMain(created) ==
    /\ tool = "dynamic"
    /\ invoke_pc = "start"
    /\ LET args == invoke_args(argv)
           scripts == find_scripts(entries)
       IN  IF ~created
           THEN spawned' = spawned /\ InvokeFinish(1)
           ELSE IF args = <<>> \/ is_help(args[1])
           THEN spawned' = spawned /\ InvokeFinish(0)
           ELSE IF \E k \in 1..Len(scripts) : scripts[k].name = args[1]
           THEN /\ spawned' = Append(spawned, compile_command(args[1]))
                /\ invoke_pc' = "compile"
                /\ UNCHANGED <<tool, entries, manifest, argv, invoke_exit>>
                /\ UNCHANGED <<typeVars, runVars, runnerVars, fmtVars, mermaidVars>>
           ELSE spawned' = spawned /\ InvokeFinish(0)

\* compile_script's command has ended: an error ends main, success runs the script
CompileDone(o) ==
    /\ invoke_pc = "compile"
    /\ LET args == invoke_args(argv)
       IN  IF ~success(o)
           THEN spawned' = spawned /\ InvokeFinish(1)
           ELSE /\ spawned' = Append(spawned, run_command(args[1], Tail(args)))
                /\ invoke_pc' = "run"
                /\ UNCHANGED <<tool, entries, manifest, argv, invoke_exit>>
                /\ UNCHANGED <<typeVars, runVars, runnerVars, fmtVars, mermaidVars>>

\* src/main.rs main up to its command: the manifest is loaded first
ManifestMain ==
    /\ tool = "main"
    /\ invoke_pc = "start"
    /\ LET args == invoke_args(argv)
           commands_found == get_available_commands(manifest, entries)
       IN  IF ~manifest_readable(entries)
           THEN spawned' = spawned /\ InvokeFinish(1)
           ELSE IF args = <<>> \/ is_help(args[1])
           THEN spawned' = spawned /\ InvokeFinish(0)
           ELSE IF \E k \in 1..Len(commands_found) : commands_found[k] = args[1]
           THEN IF Len(args) > 1 /\ is_help(args[2])
                THEN spawned' = spawned /\ InvokeFinish(0)
                ELSE /\ spawned' = Append(spawned, direct_command(args[1], Tail(args)))
                     /\ invoke_pc' = "run"
                     /\ UNCHANGED <<tool, entries, manifest, argv, invoke_exit>>
                     /\ UNCHANGED <<typeVars, runVars, runnerVars, fmtVars, mermaidVars>>
           ELSE spawned' = spawned /\ InvokeFinish(0)

\* the script's command has ended (run_script, or main.rs line 134)
RunDone(o) ==
    /\ invoke_pc = "run"
    /\ spawned' = spawned
    /\ InvokeFinish(IF success(o) THEN 0 ELSE 1)

NextInvoke ==
    \/ \E created \in BOOLEAN : DynamicMain(created)
    \/ \E o \in Outcomes : CompileDone(o)
    \/ ManifestMain
    \/ \E o \in Outcomes : RunDone(o)

SpecInvoke == InitInvoke /\ [][NextInvoke]_vars

(* Claims about the task runner (SpecInvoke) *)

\* the .rs files other than main.rs and lib.rs in the current directory and src/bin
DiscoveredScripts ==
    {e.stem : e \in {f \in entries : /\ f.dir \in {RootDir, BinDir}
                                     /\ f.ext = "rs"
                                     /\ f.stem \notin {"main", "lib"}}}

\* the manifest commands whose src/bin/<name>.rs exists
DiscoveredCommands ==
    {c \in manifest : DirEntry(BinDir, c, "rs") \in entries}

Discovered == IF tool = "dynamic" THEN DiscoveredScripts ELSE DiscoveredCommands

FirstArgument == invoke_args(argv)[1]

\* C20: the task runner starts a child process for its first argument only when
\* that argument is the name of a discovered script (dynamic.rs: a .rs file other
\* than main/lib found by listing the current directory and src/bin; main.rs: a
\* manifest command whose src/bin/<name>.rs exists); for any other non-help
\* argument no process is started.
C20_SpawnOnlyDiscovered ==
    spawned # <<>> =>
        /\ invoke_args(argv) # <<>>
        /\ ~is_help(FirstArgument)
        /\ FirstArgument \in Discovered
        /\ \A k \in 1..Len(spawned) :
              \E j \in 1..Len(spawned[k]) : spawned[k][j] = FirstArgument

C20_Witness ==
    /\ invoke_pc = "done"
    /\ tool = "dynamic"
    /\ argv = <<"invoke", "diagram">>
    /\ spawned = <<compile_command("diagram"), run_command("diagram", <<>>)>>
    /\ DirEntry(RootDir, "main", "rs") \in entries

----------------------------------------------------------------------------
(* Claims about leaves, nesting and termination *)

GenericSyntax == {"<", ">", ","}

\* C21: for every input type expression, every element returned by
\* extract_all_inner_types is a bare leaf name with no residual generic syntax:
\* no element contains '<', '>' or ',' (this includes inputs such as Foo<> with
\* an empty argument list and inputs with unbalanced brackets).
C21_BareLeaves ==
    (call = "extract_all_inner_types" /\ leaves # <<Panic>>) =>
        \A k \in 1..Len(leaves) :
            \A j \in 1..Len(leaves[k]) : leaves[k][j] \notin GenericSyntax

MapUserIdVecOrder ==
    <<"HashMap", "<", "UserId", ",", " ", "Vec", "<", "Order", ">", ">">>

\* C22: end to end in the direct-match generators (connections,
\* not_state_diagram) a struct field declared as m: HashMap<UserId, Vec<Order>>,
\* with Order in the catalog, yields the edge (struct, "has", Order): the type
\* text handed to the splitter is the field's whole type expression, including
\* the part after a top-level comma.
C22_NestedEndToEnd ==
    (/\ prog \in DirectProgs
     /\ step.op = "field"
     /\ step.input = MapUserIdVecOrder
     /\ Order \in Catalog)
        => /\ field_regex_type(step.input) = step.input
           /\ <<step.source, S("has"), Order>> \in Range(step.emitted)

\* the names of the types without generic arguments anywhere inside a type
RECURSIVE LeafNames(_), LeafNamesOf(_)

LeafNamesOf(args) ==
    IF args = <<>> THEN {} ELSE LeafNames(Head(args)) \cup LeafNamesOf(Tail(args))

LeafNames(t) ==
    IF t.kind = "Path" /\ t.args = <<>> THEN {last_ident(t)}
    ELSE LeafNamesOf(t.args)

\* C23: typed-label mode: whenever the outermost type name of a field is Option,
\* Vec or HashMap, an edge (source, "uses", outer_name) is emitted and, for every
\* leaf found anywhere inside its generic arguments (at any nesting depth, e.g.
\* Vec<Option<Order>> or HashMap<String, Vec<Order>>) that is in the catalog, an
\* edge (source, "contains", leaf) is emitted.
C23_ContainsAtAnyDepth ==
    (/\ prog = "class_diagram"
     /\ step.op = "field"
     /\ step.input.ty.kind = "Path"
     /\ last_ident(step.input.ty) \in {"Option", "Vec", "HashMap"})
        => /\ Relationship(step.source, S(last_ident(step.input.ty)), "uses")
                 \in step.emitted
           /\ \A leaf \in LeafNamesOf(step.input.ty.args) :
                 S(leaf) \in Catalog
                    => Relationship(step.source, S(leaf), "contains") \in step.emitted

\* the type names of a type in the order they are met, each with whether one of
\* its ancestors is a collection type; the collection types themselves are no
\* candidates for a match
RECURSIVE Occurrences(_, _), OccurrencesOf(_, _)

OccurrencesOf(args, under) ==
    IF args = <<>> THEN <<>>
    ELSE Occurrences(Head(args), under) \o OccurrencesOf(Tail(args), under)

Occurrences(t, under) ==
    IF t.kind = "Path"
    THEN IF last_ident(t) \in collection_types
         THEN OccurrencesOf(t.args, TRUE)
         ELSE <<[name |-> last_ident(t), under |-> under]>>
              \o OccurrencesOf(t.args, under)
    ELSE OccurrencesOf(t.args, under)

\* the occurrence the emitted edge's target was matched at: the first one
MatchedLeaf ==
    LET occ == Occurrences(step.input.ty, FALSE)
        k == Min({i \in 1..Len(occ) : S(occ[i].name) = step.emitted[1].target})
    IN  occ[k]

\* C24: cardinality mode labels the edge for a field one-to-many exactly when
\* some ancestor of the matched leaf in the field's type expression is a
\* collection type, and one-to-one otherwise; a collection that is only a sibling
\* of the matched leaf (e.g. in a tuple (Profile, Vec<String>) or a
\* non-collection generic Foo<Profile, Vec<String>>) does not make the edge
\* one-to-many.
C24_AncestorCardinality ==
    (prog = "state_diagram" /\ step.op = "field" /\ step.emitted # <<>>) =>
        /\ MatchedLeaf.under => step.emitted[1].cardinality = OneToMany
        /\ ~MatchedLeaf.under => step.emitted[1].cardinality = OneToOne

\* str::len of a token string
StrLen(s) == byte_len(chars(s))

\* C25: unwrap_type and extract_all_inner_types terminate for every finite input
\* string: each recursive call and each iteration of unwrap_type's 'outer loop
\* operates on a strictly shorter string than the one before.  With ty as the
\* loop's `result`: the text handed to the recursive call and the next `result`
\* are shorter than ty; with ty as the splitter's argument: so is every segment
\* the splitter is applied to.
C25_StrictlyShorter ==
    /\ (call = "unwrap_type" /\ has_wrapper_prefix(ty) /\ generic_inside(ty) # Panic) =>
          /\ StrLen(generic_inside(ty)) < StrLen(ty)
          /\ unwrap_type(generic_inside(ty)) # Panic =>
                StrLen(unwrap_type(generic_inside(ty))) < StrLen(ty)
    /\ (call = "extract_all_inner_types" /\ top_level_segments(ty) # <<Panic>>) =>
          \A k \in 1..Len(top_level_segments(ty)) :
              StrLen(top_level_segments(ty)[k]) < StrLen(ty)

C25_Witness ==
    /\ call = "unwrap_type"
    /\ ty = <<"Vec", "<", "Vec", "<", "A", ">", ">">>
    /\ generic_inside(ty) = <<"Vec", "<", "A", ">">>
    /\ ret = <<"A">>

----------------------------------------------------------------------------
(* clean_mermaid.rs: clean_mermaid_file and extract_clean_content.  A line is a
   sequence of tokens; the tokens "%%{", "}%%", "%%", "-->", ":::", "&nbsp;",
   ";" and " " stand for these very characters, every other token is a word. *)

\* the tokens that are no \w+ words
Marks == {" ", "%%{", "}%%", "%%", "-->", ":::", "&nbsp;", ";", "fill:#fff"}

is_word(tok) == tok \notin Marks

\* str::contains for a pattern that is one token; "class" is also inside "classDef"
contains_token(s, pat) ==
    \E k \in 1..Len(s) : s[k] = pat \/ (pat = "class" /\ s[k] = "classDef")

\* line.replace("&nbsp;", " ")
replace_nbsp(line) == [k \in 1..Len(line) |-> IF line[k] = "&nbsp;" THEN " " ELSE line[k]]

\* clean_mermaid.rs 147-173: whether the line is skipped, given in_init_block
skips_line(trimmed, in_block) ==
    \/ starts_with(trimmed, <<"%%{">>)
    \/ in_block
    \/ starts_with(trimmed, <<"classDef", " ">>) \/ starts_with(trimmed, <<"class", " ">>)
    \/ (starts_with(trimmed, <<"%%">>)
          /\ (contains_token(trimmed, "-->") \/ contains_token(trimmed, "class")))
    \/ trimmed = <<"flowchart", " ", "TB">>

\* clean_mermaid.rs 147-156: in_init_block after the line
next_in_init_block(trimmed, in_block) ==
    IF starts_with(trimmed, <<"%%{">>) THEN TRUE
    ELSE IF in_block THEN ~contains_token(trimmed, "}%%")
    ELSE FALSE

\* class_def_re on a line whose trimmed form starts with "classDef ": name and
\* properties (the text up to the first ';'), none when the regex does not match
class_definition(line) ==
    LET t == trim_start(line)
        semi == find(t, ";")
        props == SubSeq(t, 5, IF semi = 0 THEN Len(t) ELSE semi - 1)
    IN  IF /\ starts_with(t, <<"classDef", " ">>) /\ Len(t) >= 5
           /\ is_word(t[3]) /\ t[4] = " " /\ props # <<>>
        THEN <<[name |-> t[3], properties |-> props]>>
        ELSE <<>>

\* extract_all_class_definitions
RECURSIVE extract_all_class_definitions(_)
extract_all_class_definitions(ls) ==
    IF ls = <<>> THEN <<>>
    ELSE class_definition(Head(ls)) \o extract_all_class_definitions(Tail(ls))

\* class_assignment_re on a trimmed line that starts with "class "
class_statement(trimmed) ==
    IF /\ starts_with(trimmed, <<"class", " ">>) /\ Len(trimmed) >= 5
       /\ is_word(trimmed[3]) /\ trimmed[4] = " " /\ is_word(trimmed[5])
    THEN <<[elements |-> <<trimmed[3]>>, class_name |-> trimmed[5]]>>
    ELSE <<>>

\* inline_style_re.captures_iter: every word:::word of the line, from position k
RECURSIVE inline_styles(_, _)
inline_styles(trimmed, k) ==
    IF k + 2 > Len(trimmed) THEN <<>>
    ELSE IF is_word(trimmed[k]) /\ trimmed[k + 1] = ":::" /\ is_word(trimmed[k + 2])
         THEN <<[elements |-> <<trimmed[k]>>, class_name |-> trimmed[k + 2]]>>
              \o inline_styles(trimmed, k + 3)
    ELSE inline_styles(trimmed, k + 1)

\* extract_all_class_assignments
RECURSIVE extract_all_class_assignments(_)
extract_all_class_assignments(ls) ==
    IF ls = <<>> THEN <<>>
    ELSE class_statement(trim(Head(ls))) \o inline_styles(trim(Head(ls)), 1)
         \o extract_all_class_assignments(Tail(ls))

\* the class names and element names of the inputs, in String order
ClassNameOrder == <<"c1", "c2">>
ElementOrder == <<"A", "B">>

\* sort_by(|a, b| a.name.cmp(&b.name)): a stable sort
RECURSIVE sorted_defs_from(_, _)
sorted_defs_from(defs, r) ==
    IF r > Len(ClassNameOrder) THEN <<>>
    ELSE SelectSeq(defs, LAMBDA d : d.name = ClassNameOrder[r])
         \o sorted_defs_from(defs, r + 1)

\* sort_by elements.join(","), then class_name: a stable sort
RECURSIVE sorted_assignments_from(_, _, _)
sorted_assignments_from(as, e, c) ==
    IF e > Len(ElementOrder) THEN <<>>
    ELSE IF c > Len(ClassNameOrder) THEN sorted_assignments_from(as, e + 1, 1)
    ELSE SelectSeq(as, LAMBDA a : /\ a.elements = <<ElementOrder[e]>>
                                  /\ a.class_name = ClassNameOrder[c])
         \o sorted_assignments_from(as, e, c + 1)

\* format!("classDef {} {}\n", ..) and format!("class {} {}\n", ..)
def_line(d) == <<"classDef", " ", d.name, " ">> \o d.properties
assignment_line(a) == <<"class", " ">> \o a.elements \o <<" ", a.class_name>>

\* clean_mermaid_file 55-85: the output, as its lines
build_output(ls, cleaned) ==
    LET defs == sorted_defs_from(extract_all_class_definitions(ls), 1)
        as == sorted_assignments_from(extract_all_class_assignments(ls), 1, 1)
    IN  << <<"flowchart", " ", "TB">>, <<>> >>
        \o (IF cleaned = <<>> THEN << <<>> >> ELSE cleaned)
        \o [k \in 1..Len(defs) |-> def_line(defs[k])]
        \o [k \in 1..Len(as) |-> assignment_line(as[k])]

\* the lines the input files are made of
InitOneLine == <<"%%{", "init", "}%%">>
InitOpen == <<"%%{", "init">>
InitClose == <<" ", "}%%">>
CleanVocabulary ==
    { <<>>, InitOneLine, InitOpen, InitClose,
      <<"classDef", " ", "c1", " ", "fill:#fff", ";">>,
      <<"class", " ", "A", " ", "c2">>,
      <<"%%", " ", "A", "-->", "B">>,
      <<"%%", " ", "note">>,
      <<"flowchart", " ", "TB">>,
      <<" ", "A", "-->", "B">>,
      <<"A", ":::", "c1", "-->", "B", "&nbsp;">>,
      <<"&nbsp;">> }

CleanInputs == UNION {[1..n -> CleanVocabulary] : n \in 0..MaxLines}

InitClean ==
    /\ IdleTypes
    /\ IdleRun
    /\ IdleRunner
    /\ IdleFmt
    /\ IdleInvoke
    /\ IdleSplit
    /\ IdlePalette
    /\ IdleVisualize
    /\ content \in CleanInputs
    /\ clean_i = 0
    /\ in_init_block = FALSE
    /\ cleaned_lines = <<>>
    /\ clean_output = <<>>
    /\ clean_pc = "filter"

\* extract_clean_content 143-185: one turn of the for loop
CleanLine ==
    /\ clean_pc = "filter"
    /\ clean_i < Len(content)
    /\ LET line == content[clean_i + 1]
           trimmed == trim(line)
           cleaned_line == replace_nbsp(line)
       IN  /\ in_init_block' = next_in_init_block(trimmed, in_init_block)
           /\ cleaned_lines' =
                 IF skips_line(trimmed, in_init_block) \/ trim(cleaned_line) = <<>>
                 THEN cleaned_lines
                 ELSE Append(cleaned_lines, cleaned_line)
    /\ clean_i' = clean_i + 1
    /\ UNCHANGED <<content, clean_output, clean_pc>>
    /\ UNCHANGED <<typeVars, runVars, runnerVars, fmtVars, invokeVars, splitVars,
                   paletteVars, visualizeVars>>

\* clean_mermaid_file 55-87: the output is put together
CleanBuild ==
    /\ clean_pc = "filter"
    /\ clean_i = Len(content)
    /\ clean_output' = build_output(content, cleaned_lines)
    /\ clean_pc' = "done"
    /\ UNCHANGED <<content, clean_i, in_init_block, cleaned_lines>>
    /\ UNCHANGED <<typeVars, runVars, runnerVars, fmtVars, invokeVars, splitVars,
                   paletteVars, visualizeVars>>

NextClean == CleanLine \/ CleanBuild

SpecClean == InitClean /\ [][NextClean]_vars

(* Claims about clean_mermaid (SpecClean) *)

\* whether an init block, opened by a line that starts with "%%{", is still open
\* after the k-th line: the line that contains "}%%" closes it
RECURSIVE InitBlockOpenAfter(_, _)
InitBlockOpenAfter(ls, k) ==
    IF k = 0 THEN FALSE
    ELSE /\ starts_with(trim(ls[k]), <<"%%{">>) \/ InitBlockOpenAfter(ls, k - 1)
         /\ ~contains_token(trim(ls[k]), "}%%")

InitBlockLine(ls, k) ==
    starts_with(trim(ls[k]), <<"%%{">>) \/ InitBlockOpenAfter(ls, k - 1)

\* the lines the filter is said to remove
Removable(ls, k) ==
    LET t == trim(ls[k])
    IN  \/ InitBlockLine(ls, k)
        \/ starts_with(t, <<"classDef", " ">>) \/ starts_with(t, <<"class", " ">>)
        \/ (starts_with(t, <<"%%">>)
              /\ (contains_token(t, "-->") \/ contains_token(t, "class")))
        \/ t = <<"flowchart", " ", "TB">>
        \/ trim(replace_nbsp(ls[k])) = <<>>

RECURSIVE KeptLines(_, _)
KeptLines(ls, k) ==
    IF k > Len(ls) THEN <<>>
    ELSE (IF Removable(ls, k) THEN <<>> ELSE <<replace_nbsp(ls[k])>>)
         \o KeptLines(ls, k + 1)

\* C26: the content filter of clean_mermaid removes only init-block lines (from
\* the line starting with "%%{" through the line containing "}%%"), classDef and
\* class lines, "%%" comments containing "-->" or "class", the "flowchart TB"
\* line and blank lines; every other line is in the cleaned content, in input
\* order, also after an init block that opens and closes on one line.
C26_OnlyListedLinesRemoved ==
    clean_pc = "done" => cleaned_lines = KeptLines(content, 1)

----------------------------------------------------------------------------
(* split_mermaid_o1.rs: main.  Lines are token sequences as in clean_mermaid. *)

MaxSplitLines == 4

\* split_mermaid_o1.rs 32-37: the lines that do not start with "%%{init"
read_lines(ls) ==
    SelectSeq(ls, LAMBDA line : ~starts_with(trim_start(line), <<"%%{", "init">>))

\* split_mermaid_o1.rs 44-45
is_class_line(line) ==
    \/ starts_with(trim_start(line), <<"classDef", " ">>)
    \/ starts_with(trim_start(line), <<"class", " ">>)

\* trimmed.split_whitespace(): the second chunk, <<>> when there is none
second_token(trimmed) ==
    LET rest == trim_start(Tail(trimmed))
        sp == find(rest, " ")
    IN  IF sp = 0 THEN rest ELSE SubSeq(rest, 1, sp - 1)

\* Subgraph { name, lines }
Subgraph(name, lines) == [name |-> name, lines |-> lines]

\* sg.lines.push(line) on an Option<Subgraph>; None stays None
push_line(cur, line) ==
    IF cur = <<>> THEN cur
    ELSE <<Subgraph(cur[1].name, Append(cur[1].lines, line))>>

\* split_mermaid_o1.rs 59-134: one turn of the for loop, as the new values of
\* subgraphs, current_subgraph, nesting_level and skipping_nbsp_subgraph
parse_line(line, subs, cur, level, skipping) ==
    LET trimmed == trim_start(line)
        subg_name == second_token(trimmed)
        same == [subs |-> subs, cur |-> cur, level |-> level, skipping |-> skipping]
    IN  IF starts_with(trimmed, <<"subgraph", " ">>)
        THEN IF subg_name # <<>>
             THEN IF contains_token(subg_name, "&nbsp;")
                  THEN [same EXCEPT !.skipping = TRUE, !.level = level + 1]
                  ELSE IF level = 0 /\ ~skipping
                       THEN [same EXCEPT !.cur = <<Subgraph(subg_name, <<line>>)>>,
                                         !.level = level + 1]
                  ELSE IF ~skipping
                       THEN [same EXCEPT !.cur = push_line(cur, line),
                                         !.level = level + 1]
                  ELSE [same EXCEPT !.level = level + 1]
             ELSE IF level > 0 /\ ~skipping
                  THEN [same EXCEPT !.cur = push_line(cur, line)]
                  ELSE same
        ELSE IF trimmed = <<"end">>
        THEN IF skipping
             THEN LET l == saturating_sub1(level)
                  IN  [same EXCEPT !.level = l, !.skipping = (l # 0)]
             ELSE LET pushed == push_line(cur, line)
                      l == IF level > 0 THEN level - 1 ELSE level
                  IN  IF l = 0
                      THEN [same EXCEPT !.level = l, !.cur = <<>>,
                                        !.subs = subs \o pushed]
                      ELSE [same EXCEPT !.level = l, !.cur = pushed]
        ELSE IF level > 0 /\ ~skipping
             THEN [same EXCEPT !.cur = push_line(cur, line)]
             ELSE same

\* the class lines of the inputs, in byte order: ' ' comes before 'D'
ClassLineOrder ==
    << <<"class", " ", "A", " ", "c1">>,
       <<"classDef", " ", "c1", " ", "fill:#fff">> >>

\* class_lines.sort()
RECURSIVE sort_class_lines_from(_, _)
sort_class_lines_from(ls, r) ==
    IF r > Len(ClassLineOrder) THEN <<>>
    ELSE SelectSeq(ls, LAMBDA l : l = ClassLineOrder[r])
         \o sort_class_lines_from(ls, r + 1)

\* token_regex [A-Za-z0-9_]+ over the lines of a subgraph
tokens_in_subgraph(lines) ==
    UNION {{IF lines[k][j] = "&nbsp;" THEN "nbsp" ELSE lines[k][j] :
              j \in {i \in 1..Len(lines[k]) :
                       is_word(lines[k][i]) \/ lines[k][i] = "&nbsp;"}} :
           k \in 1..Len(lines)}

\* cl.contains(t) for a token t: no word of the inputs lies inside another one
line_contains(cl, t) == \E k \in 1..Len(cl) : cl[k] = t

\* split_mermaid_o1.rs 157-196: the file written for one subgraph
subgraph_file(sg, sorted_class_lines) ==
    [path |-> sg.name \o <<".mermaid">>,
     lines |-> << <<"flowchart", " ", "TB">> >> \o sg.lines
               \o SelectSeq(sorted_class_lines,
                            LAMBDA cl : \E t \in tokens_in_subgraph(sg.lines) :
                                            line_contains(cl, t))]

\* the lines the input files are made of
SplitVocabulary ==
    { <<"subgraph", " ", "A">>,
      <<" ", "subgraph", " ", "B">>,
      <<"subgraph", " ", "N", "&nbsp;">>,
      <<"subgraph", " ">>,
      <<" ", "end">>,
      <<" ", "A", "-->", "B">>,
      <<"%%{", "init", "}%%">>,
      <<"class", " ", "A", " ", "c1">>,
      <<"classDef", " ", "c1", " ", "fill:#fff">> }

SplitInputs == UNION {[1..n -> SplitVocabulary] : n \in 0..MaxSplitLines}

InitSplit ==
    /\ IdleTypes
    /\ IdleRun
    /\ IdleRunner
    /\ IdleFmt
    /\ IdleInvoke
    /\ IdleClean
    /\ IdlePalette
    /\ IdleVisualize
    /\ input_lines \in SplitInputs
    /\ all_lines = <<>>
    /\ filtered_lines = <<>>
    /\ class_lines = <<>>
    /\ split_i = 0
    /\ subgraphs = <<>>
    /\ current_subgraph = <<>>
    /\ nesting_level = 0
    /\ skipping_nbsp_subgraph = FALSE
    /\ written = <<>>
    /\ split_pc = "read"

\* split_mermaid_o1.rs 28-50: the file is read and its class lines set apart
SplitRead ==
    /\ split_pc = "read"
    /\ all_lines' = read_lines(input_lines)
    /\ class_lines' = SelectSeq(all_lines', is_class_line)
    /\ filtered_lines' = SelectSeq(all_lines', LAMBDA l : ~is_class_line(l))
    /\ split_pc' = "parse"
    /\ UNCHANGED <<input_lines, split_i, subgraphs, current_subgraph, nesting_level,
                   skipping_nbsp_subgraph, written>>
    /\ UNCHANGED <<typeVars, runVars, runnerVars, fmtVars, invokeVars, cleanVars,
                   paletteVars, visualizeVars>>

\* split_mermaid_o1.rs 59-134: one turn of the for loop
SplitLine ==
    /\ split_pc = "parse"
    /\ split_i < Len(filtered_lines)
    /\ LET r == parse_line(filtered_lines[split_i + 1], subgraphs, current_subgraph,
                           nesting_level, skipping_nbsp_subgraph)
       IN  /\ subgraphs' = r.subs
           /\ current_subgraph' = r.cur
           /\ nesting_level' = r.level
           /\ skipping_nbsp_subgraph' = r.skipping
    /\ split_i' = split_i + 1
    /\ UNCHANGED <<input_lines, all_lines, filtered_lines, class_lines, written,
                   split_pc>>
    /\ UNCHANGED <<typeVars, runVars, runnerVars, fmtVars, invokeVars, cleanVars,
                   paletteVars, visualizeVars>>

\* split_mermaid_o1.rs 136-198: the unclosed subgraph is added, the class lines
\* are sorted and one file per subgraph is written
SplitWrite ==
    /\ split_pc = "parse"
    /\ split_i = Len(filtered_lines)
    /\ subgraphs' = subgraphs \o current_subgraph
    /\ current_subgraph' = <<>>
    /\ class_lines' = sort_class_lines_from(class_lines, 1)
    /\ written' = [k \in 1..Len(subgraphs') |->
                      subgraph_file(subgraphs'[k], class_lines')]
    /\ split_pc' = "done"
    /\ UNCHANGED <<input_lines, all_lines, filtered_lines, split_i, nesting_level,
                   skipping_nbsp_subgraph>>
    /\ UNCHANGED <<typeVars, runVars, runnerVars, fmtVars, invokeVars, cleanVars,
                   paletteVars, visualizeVars>>

NextSplit == SplitRead \/ SplitLine \/ SplitWrite

SpecSplit == InitSplit /\ [][NextSplit]_vars

(* Claims about split_mermaid_o1 (SpecSplit) *)

\* a line that opens a subgraph: "subgraph" followed by a name
OpensSubgraph(line) ==
    starts_with(trim_start(line), <<"subgraph", " ">>)
        /\ second_token(trim_start(line)) # <<>>

ClosesSubgraph(line) == trim_start(line) = <<"end">>

\* the nesting depth after the first k lines, -1 once an "end" had nothing to close
RECURSIVE DepthAfter(_, _)
DepthAfter(ls, k) ==
    IF k = 0 THEN 0
    ELSE LET d == DepthAfter(ls, k - 1)
         IN  IF d < 0 THEN d
             ELSE IF OpensSubgraph(ls[k]) THEN d + 1
             ELSE IF ClosesSubgraph(ls[k]) THEN d - 1
             ELSE d

BalancedNesting(ls) ==
    /\ \A k \in 0..Len(ls) : DepthAfter(ls, k) >= 0
    /\ DepthAfter(ls, Len(ls)) = 0

\* the "end" that closes the subgraph opened by line k
MatchingEnd(ls, k) ==
    Min({j \in (k + 1)..Len(ls) : DepthAfter(ls, j) = DepthAfter(ls, k - 1)})

NbspName(line) == contains_token(second_token(trim_start(line)), "&nbsp;")

\* line j lies in a subgraph whose name contains "&nbsp;" (its header and its
\* "end" included)
InNbspSubgraph(ls, j) ==
    \E k \in 1..j : /\ OpensSubgraph(ls[k]) /\ NbspName(ls[k])
                    /\ j <= MatchingEnd(ls, k)

\* the entry of the top-level subgraph that line k opens
ExpectedEntry(ls, k) ==
    LET e == MatchingEnd(ls, k)
        kept == {j \in k..e : ~InNbspSubgraph(ls, j)}
        RECURSIVE Lines(_)
        Lines(j) == IF j > e THEN <<>>
                    ELSE (IF j \in kept THEN <<ls[j]>> ELSE <<>>) \o Lines(j + 1)
    IN  Subgraph(second_token(trim_start(ls[k])), Lines(k))

RECURSIVE ExpectedSubgraphsFrom(_, _)
ExpectedSubgraphsFrom(ls, k) ==
    IF k > Len(ls) THEN <<>>
    ELSE (IF OpensSubgraph(ls[k]) /\ DepthAfter(ls, k - 1) = 0 /\ ~NbspName(ls[k])
          THEN <<ExpectedEntry(ls, k)>> ELSE <<>>)
         \o ExpectedSubgraphsFrom(ls, k + 1)

\* C27: for input lines with balanced subgraph/end nesting, split_mermaid_o1
\* collects every top-level subgraph whose name has no "&nbsp;" as exactly one
\* entry holding all of its lines except those of nested "&nbsp;" subgraphs;
\* the skipping of an "&nbsp;" subgraph stops at the "end" that closes it.
C27_TopLevelSubgraphsCollected ==
    (split_pc = "done" /\ BalancedNesting(filtered_lines))
        => subgraphs = ExpectedSubgraphsFrom(filtered_lines, 1)

----------------------------------------------------------------------------
(* Claims about the formatter's indent_level (SpecFmt) *)

\* the lines handled so far that are written in place: trimmed, not blank,
\* without ":::"
ProcessedInPlace ==
    SelectSeq([k \in 1..fmt_i |-> trim(fmt_lines[k])],
              LAMBDA l : l # <<>> /\ \A k \in 1..Len(l) : l[k] # ":::")

\* the subgraphs that are open after the lines handled so far
OpenSubgraphs == OpenAfter(ProcessedInPlace, Len(ProcessedInPlace))

\* the last line handled was an "end" with no subgraph open
StrayEndHandled ==
    /\ fmt_pc = "loop"
    /\ fmt_i > 0
    /\ trim(fmt_lines[fmt_i]) = <<"end">>
    /\ OpenAfter(ProcessedInPlace, Len(ProcessedInPlace) - 1) = 0

\* C28: after any prefix of the input lines indent_level is the number of open
\* subgraphs and is never below zero; an "end" with no open subgraph leaves it at
\* zero and is written unindented; for balanced input it is zero at the end, and
\* the trailing class assignment lines are written unindented.
C28_IndentLevelIsOpenSubgraphs ==
    /\ indent_level = OpenSubgraphs
    /\ indent_level >= 0
    /\ StrayEndHandled =>
          /\ indent_level = 0
          /\ formatted # <<>> /\ formatted[Len(formatted)] = <<"end">>
    /\ (fmt_pc = "done" /\ OpenSubgraphs = 0) =>
          /\ indent_level = 0
          /\ Len(formatted) >= Len(Annotated)
          /\ \A j \in (Len(formatted) - Len(Annotated) + 1)..Len(formatted) :
                LeadingIndent(formatted[j]) = 0

C28_Witness ==
    /\ fmt_pc = "done"
    /\ fmt_lines = <<SubgraphOne, <<"end">>, <<"A-->B", ":::", "classB">>>>
    /\ indent_level = 0
    /\ formatted = <<SubgraphOne, <<"end">>, <<>>, <<"A-->B", ":::", "classB">>>>

----------------------------------------------------------------------------
(* palette.rs: ColorMaps, get_or_create_artistic_name, generate_artistic_name
   and main's loop.  A name is the pair of the two words it is made of.  The
   words that the seeded generator draws from the word pools are not computed:
   every draw is a choice among the words. *)

MaxColors == 2

HexColors == <<"#111111", "#222222", "#333333", "#444444">>

\* the colors of the input file and of the store
Hexes == {HexColors[k] : k \in 1..MaxColors}

\* the words of the word pools
Words == {"Amber", "Dusk", "Fern"}

\* format!("{}{}", w0, w1)
format_name(w0, w1) == <<w0, w1>>

\* HashMap::insert
insert(map, key, value) ==
    [x \in (DOMAIN map) \cup {key} |-> IF x = key THEN value ELSE map[x]]

ColorMaps(h2n, n2h) == [hex_to_name |-> h2n, name_to_hex |-> n2h]

\* ColorMaps::add_color
add_color(db, hex, name) ==
    ColorMaps(insert(db.hex_to_name, hex, name), insert(db.name_to_hex, name, hex))

\* ColorMaps::name_exists
name_exists(db, name) == name \in DOMAIN db.name_to_hex

\* generate_artistic_name 2451-2489: the two selected words are distinct
SelectedWords == {p \in Words \X Words : p[1] # p[2]}

\* generate_artistic_name 2491-2508: the names the call can return when the two
\* selected words are w0 and w1.  The name w0+w1 is returned if it is free;
\* otherwise w0+new_word is tried for drawn words other than w0, the first free
\* one is returned, and after ten rounds the name tried last is returned as it is
retry_names(db, w0, w1) ==
    IF ~name_exists(db, format_name(w0, w1)) THEN {format_name(w0, w1)}
    ELSE {format_name(w0, w) : w \in Words \ {w0}}

\* generate_artistic_name: every name the call can return
generate_artistic_name(db) ==
    UNION {retry_names(db, p[1], p[2]) : p \in SelectedWords}

\* the stores colors.json can hold in which the two maps are mutual inverses
Names == {format_name(p[1], p[2]) : p \in SelectedWords}

InverseStores ==
    UNION {{ColorMaps(h2n, [nm \in {h2n[h] : h \in stored} |->
                                CHOOSE h \in stored : h2n[h] = nm]) :
              h2n \in {map \in [stored -> Names] :
                         \A a, b \in stored : map[a] = map[b] => a = b}} :
           stored \in SUBSET Hexes}

\* extract_colors: the colors of the file, each once, by luminance
ColorLists ==
    {SelectSeq(SubSeq(HexColors, 1, MaxColors), LAMBDA h : h \in stored) :
       stored \in (SUBSET Hexes) \ {{}}}

InitPalette ==
    /\ IdleTypes
    /\ IdleRun
    /\ IdleRunner
    /\ IdleFmt
    /\ IdleInvoke
    /\ IdleClean
    /\ IdleSplit
    /\ IdleVisualize
    /\ \E db \in InverseStores :
          /\ hex_to_name = db.hex_to_name
          /\ name_to_hex = db.name_to_hex
    /\ colors \in ColorLists
    /\ color_and_name = <<>>
    /\ palette_pc = "names"

\* main 2311-2314 with get_or_create_artistic_name: the name of the next color
GetOrCreate(new_name) ==
    /\ palette_pc = "names"
    /\ colors # <<>>
    /\ LET hex == Head(colors)
           db == ColorMaps(hex_to_name, name_to_hex)
       IN  IF hex \in DOMAIN hex_to_name
           THEN /\ new_name = hex_to_name[hex]
                /\ color_and_name' = Append(color_and_name, <<hex, hex_to_name[hex]>>)
                /\ UNCHANGED <<hex_to_name, name_to_hex>>
           ELSE /\ new_name \in generate_artistic_name(db)
                /\ hex_to_name' = add_color(db, hex, new_name).hex_to_name
                /\ name_to_hex' = add_color(db, hex, new_name).name_to_hex
                /\ color_and_name' = Append(color_and_name, <<hex, new_name>>)
    /\ colors' = Tail(colors)
    /\ UNCHANGED palette_pc
    /\ UNCHANGED <<typeVars, runVars, runnerVars, fmtVars, invokeVars, cleanVars,
                   splitVars, visualizeVars>>

\* main 2316-2330: the store and the palette are written
PaletteSave ==
    /\ palette_pc = "names"
    /\ colors = <<>>
    /\ palette_pc' = "done"
    /\ UNCHANGED <<hex_to_name, name_to_hex, colors, color_and_name>>
    /\ UNCHANGED <<typeVars, runVars, runnerVars, fmtVars, invokeVars, cleanVars,
                   splitVars, visualizeVars>>

NextPalette ==
    \/ \E new_name \in Names : GetOrCreate(new_name)
    \/ PaletteSave

SpecPalette == InitPalette /\ [][NextPalette]_vars

(* Claims about the palette name store (SpecPalette) *)

\* the two maps are mutual inverses
MutualInverses(h2n, n2h) ==
    /\ \A h \in DOMAIN h2n : h2n[h] \in DOMAIN n2h /\ n2h[h2n[h]] = h
    /\ \A n \in DOMAIN n2h : n2h[n] \in DOMAIN h2n /\ h2n[n2h[n]] = n

\* a call for a color that is in the store returns the stored name and leaves the
\* store as it is
PresentHexKept ==
    (palette_pc = "names" /\ colors # <<>> /\ Head(colors) \in DOMAIN hex_to_name) =>
        /\ UNCHANGED <<hex_to_name, name_to_hex>>
        /\ color_and_name' =
              Append(color_and_name, <<Head(colors), hex_to_name[Head(colors)]>>)

\* C29: starting from a store whose maps are mutual inverses, after any sequence
\* of get_or_create_artistic_name calls hex_to_name and name_to_hex are mutual
\* inverses (distinct colors never share a name); a color already present keeps
\* its stored name and the store is unchanged.
C29_StoreStaysInverse ==
    [][PresentHexKept /\ MutualInverses(hex_to_name', name_to_hex')]_vars

----------------------------------------------------------------------------
(* visualize.rs: main and convert_to_format, for `visualize d [-C] [--png]` *)

\* main 148-150: diagrams/<input_file>.mermaid
input_path == "diagrams/d.mermaid"

\* input_path.with_extension("temp.mmd")
temp_path == "diagrams/d.temp.mmd"

\* convert_to_format 61-64: visuals/<input_file>.<output_format>
output_path(format) == IF format = "png" THEN "visuals/d.png" ELSE "visuals/d.svg"

\* convert_to_format 74-78
config_path(type) ==
    IF type = "Default" THEN "assets/default.config.json"
    ELSE "assets/mermaid.config.json"

css_path == "assets/mermaid.css"

\* convert_to_format 66-87: the arguments mmdc is given
mmdc_args(type, format, existing) ==
    <<"-i", temp_path, "-o", output_path(format)>>
    \o (IF config_path(type) \in existing
        THEN <<"--configFile", config_path(type)>> ELSE <<>>)
    \o (IF css_path \in existing THEN <<"--cssFile", css_path>> ELSE <<>>)

\* the paths that can exist when visualize is started
VisualizePaths ==
    {input_path, "visuals", "assets/default.config.json",
     "assets/mermaid.config.json", css_path}

InitVisualize ==
    /\ IdleTypes
    /\ IdleRun
    /\ IdleRunner
    /\ IdleFmt
    /\ IdleInvoke
    /\ IdleClean
    /\ IdleSplit
    /\ IdlePalette
    /\ diagram_type \in {"Default", "Class"}
    /\ output_format \in {"svg", "png"}
    /\ paths \in SUBSET VisualizePaths
    /\ mmdc = <<>>
    /\ visualize_pc = "main"
    /\ visualize_exit = -1

\* what is left as it is by every step of visualize
VisualizeFrame ==
    /\ UNCHANGED <<diagram_type, output_format>>
    /\ UNCHANGED <<typeVars, runVars, runnerVars, fmtVars, invokeVars, cleanVars,
                   splitVars, paletteVars>>

\* main 125-128: mmdc is looked for, and installed with npm when it is missing
CheckMmdc(installed, npm) ==
    /\ visualize_pc = "main"
    /\ IF installed \/ success(npm)
       THEN visualize_pc' = "convert" /\ UNCHANGED visualize_exit
       ELSE visualize_pc' = "err_install" /\ visualize_exit' = 1
    /\ UNCHANGED <<paths, mmdc>>
    /\ VisualizeFrame

\* convert_to_format 39-59: the input is read and the temporary file is written
ConvertWrite(read_ok, write_ok) ==
    /\ visualize_pc = "convert"
    /\ IF input_path \notin paths
       THEN visualize_pc' = "err_missing" /\ visualize_exit' = 1 /\ UNCHANGED paths
       ELSE IF ~read_ok
       THEN visualize_pc' = "err_read" /\ visualize_exit' = 1 /\ UNCHANGED paths
       ELSE IF ~write_ok
       THEN visualize_pc' = "err_write" /\ visualize_exit' = 1 /\ UNCHANGED paths
       ELSE /\ paths' = paths \cup {temp_path}
            /\ visualize_pc' = "written"
            /\ UNCHANGED visualize_exit
    /\ UNCHANGED mmdc
    /\ VisualizeFrame

\* convert_to_format 61-62: fs::create_dir_all("visuals")?
ConvertMkdir(mkdir_ok) ==
    /\ visualize_pc = "written"
    /\ IF mkdir_ok \/ "visuals" \in paths
       THEN /\ paths' = paths \cup {"visuals"}
            /\ visualize_pc' = "run"
            /\ UNCHANGED visualize_exit
       ELSE visualize_pc' = "err_mkdir" /\ visualize_exit' = 1 /\ UNCHANGED paths
    /\ UNCHANGED mmdc
    /\ VisualizeFrame

\* convert_to_format 66-110 (without the macOS-only `open`): mmdc is run, the
\* temporary file is removed, the exit status is looked at
ConvertRun(o, remove_ok) ==
    /\ visualize_pc = "run"
    /\ mmdc' = mmdc_args(diagram_type, output_format, paths)
    /\ IF o.kind = "io_error"
       THEN visualize_pc' = "err_spawn" /\ visualize_exit' = 1 /\ UNCHANGED paths
       ELSE IF ~remove_ok
       THEN visualize_pc' = "err_remove" /\ visualize_exit' = 1 /\ UNCHANGED paths
       ELSE /\ paths' = (paths \ {temp_path})
                           \cup (IF success(o) THEN {output_path(output_format)}
                                 ELSE {})
            /\ IF success(o)
               THEN visualize_pc' = "ok" /\ visualize_exit' = 0
               ELSE visualize_pc' = "err_status" /\ visualize_exit' = 1
    /\ VisualizeFrame

NextVisualize ==
    \/ \E installed \in BOOLEAN, npm \in Outcomes : CheckMmdc(installed, npm)
    \/ \E read_ok \in BOOLEAN, write_ok \in BOOLEAN : ConvertWrite(read_ok, write_ok)
    \/ \E mkdir_ok \in BOOLEAN : ConvertMkdir(mkdir_ok)
    \/ \E o \in Outcomes, remove_ok \in BOOLEAN : ConvertRun(o, remove_ok)

SpecVisualize == InitVisualize /\ [][NextVisualize]_vars

(* Claims about visualize (SpecVisualize) *)

\* convert_to_format has returned after the renderer succeeded ("ok"), exited
\* with a failure ("err_status") or could not be started ("err_spawn")
ReturnedAfterRenderer == visualize_pc \in {"ok", "err_status", "err_spawn"}

\* C30: once convert_to_format has written its temporary <input>.temp.mmd file,
\* that file no longer exists when convert_to_format returns, whether the
\* renderer succeeded, exited non-zero or could not be started.
C30_TempFileRemoved == ReturnedAfterRenderer => temp_path \notin paths

====
